---- MODULE Spec2Model ----
(***************************************************************************)
(* Model of the email/password/2FA authentication backend:                 *)
(*   - the rate limiters of lib/server/rate-limit.ts,                      *)
(*   - the credential store (user, session, password_reset_session rows),  *)
(*   - the server actions that read and write them.                        *)
(* Time is counted in whole seconds.  The source compares millisecond      *)
(* clock differences against seconds * 1000; on whole-second instants the  *)
(* two comparisons agree, so the factor 1000 is dropped on both sides.     *)
(***************************************************************************)
EXTENDS Integers, Sequences, FiniteSets, TLC

VARIABLES
    now,        \* Date.now(), in seconds
    cfg,        \* constructor arguments of the limiter instances under test
    eStore,     \* ExpiringTokenBucket.storage    (key -> {count, createdAt})
    rStore,     \* RefillingTokenBucket.storage   (key -> {count, refilledAt})
    eWin,       \* history: per key, the fixed window in progress and its spend
    last,       \* history: the last limiter call and what it returned
    ops,        \* history: number of limiter calls made
    users,      \* table user            (id -> row)
    sessions,   \* table session         (id -> row)
    resetSessions, \* table password_reset_session (id -> row)
    lim,        \* the limiter instances of the application, one storage each
    reqs,       \* per client: the request in flight or the last one finished
    cookies,    \* per client: the cookie jar
    nextId,     \* requests started so far; the source of fresh random values
    emailRequests, \* table email_verification_request (id -> row)
    sent,       \* the verification emails sent so far
    wrongCodes, \* history: the TOTP codes turned down as invalid, user and time
    budget      \* the number of requests the clients send in the behaviour

bucketVars == <<cfg, eStore, rStore, eWin, last, ops>>
authVars == <<users, sessions, resetSessions, lim, reqs, cookies, nextId,
              emailRequests, sent, wrongCodes, budget>>
vars == <<now, cfg, eStore, rStore, eWin, last, ops,
          users, sessions, resetSessions, lim, reqs, cookies, nextId,
          emailRequests, sent, wrongCodes, budget>>

----------------------------------------------------------------------------
(* Bounds of the model *)

MaxBucketMax == 2       \* largest `max` a limiter under test is built with
MaxWindow == 2          \* largest expiresInSeconds / refillIntervalSeconds
MaxCost == 3            \* largest cost passed to check / consume
MaxNow == 3             \* the clock stops advancing here
MaxOps == 3             \* limiter calls per behaviour

Keys == {"k1", "k2"}

----------------------------------------------------------------------------
(* Map<_Key, _> helpers: a storage is a function whose domain is the set of
   keys present. *)

MapHas(s, k) == k \in DOMAIN s
MapSet(s, k, v) == [x \in (DOMAIN s) \cup {k} |-> IF x = k THEN v ELSE s[x]]
MapDelete(s, k) == [x \in (DOMAIN s) \ {k} |-> s[x]]
EmptyMap == [x \in {} |-> 0]
Min(a, b) == IF a <= b THEN a ELSE b

----------------------------------------------------------------------------
(* RefillingTokenBucket *)

Refill(b, interval, t) == (t - b.refilledAt) \div interval

RefillingCheck(s, max, interval, key, cost, t) ==
    IF ~MapHas(s, key) THEN TRUE
    ELSE LET refill == Refill(s[key], interval, t) IN
         IF refill > 0 THEN Min(s[key].count + refill, max) >= cost
         ELSE s[key].count >= cost

\* a consume that credits a token for an interval that has only begun
RefillingConsumeRoundingUp(s, max, interval, key, cost, t) ==
    IF ~MapHas(s, key)
    THEN [ok |-> TRUE, store |-> MapSet(s, key, [count |-> max - cost, refilledAt |-> t])]
    ELSE LET refill == (t - s[key].refilledAt + interval - 1) \div interval
             count == Min(s[key].count + refill, max)
         IN IF count < cost
            THEN [ok |-> FALSE,
                  store |-> MapSet(s, key, [count |-> count, refilledAt |-> t])]
            ELSE [ok |-> TRUE,
                  store |-> MapSet(s, key, [count |-> count - cost, refilledAt |-> t])]

\* a consume that leaves the entry as it was when it rejects the call
RefillingConsumeKeepingOnRejection(s, max, interval, key, cost, t) ==
    IF ~MapHas(s, key)
    THEN [ok |-> TRUE, store |-> MapSet(s, key, [count |-> max - cost, refilledAt |-> t])]
    ELSE LET refill == Refill(s[key], interval, t)
             count == Min(s[key].count + refill, max)
         IN IF count < cost
            THEN [ok |-> FALSE, store |-> s]
            ELSE [ok |-> TRUE,
                  store |-> MapSet(s, key, [count |-> count - cost, refilledAt |-> t])]

\* a consume that keeps the refilled count of a rejected call but not the
\* instant of the refill
RefillingConsumeKeepingRefilledAt(s, max, interval, key, cost, t) ==
    IF ~MapHas(s, key)
    THEN [ok |-> TRUE, store |-> MapSet(s, key, [count |-> max - cost, refilledAt |-> t])]
    ELSE LET refill == Refill(s[key], interval, t)
             count == Min(s[key].count + refill, max)
         IN IF count < cost
            THEN [ok |-> FALSE,
                  store |-> MapSet(s, key, [count |-> count, refilledAt |-> s[key].refilledAt])]
            ELSE [ok |-> TRUE,
                  store |-> MapSet(s, key, [count |-> count - cost, refilledAt |-> t])]

\* the bucket object is mutated in place: the refilled count and the new
\* refilledAt are kept when the call is rejected
RefillingConsume(s, max, interval, key, cost, t) ==
    IF ~MapHas(s, key)
    THEN [ok |-> TRUE, store |-> MapSet(s, key, [count |-> max - cost, refilledAt |-> t])]
    ELSE LET refill == Refill(s[key], interval, t)
             count == Min(s[key].count + refill, max)
         IN IF count < cost
            THEN [ok |-> FALSE, store |-> MapSet(s, key, [count |-> count, refilledAt |-> t])]
            ELSE [ok |-> TRUE,
                  store |-> MapSet(s, key, [count |-> count - cost, refilledAt |-> t])]

----------------------------------------------------------------------------
(* ExpiringTokenBucket *)

\* an entry that lasts one second more than expiresInSeconds
ExpiredLate(b, expiresInSeconds, t) == t - b.createdAt > expiresInSeconds

Expired(b, expiresInSeconds, t) == t - b.createdAt >= expiresInSeconds

ExpiringCheck(s, max, expiresInSeconds, key, cost, t) ==
    IF ~MapHas(s, key) THEN TRUE
    ELSE IF Expired(s[key], expiresInSeconds, t) THEN TRUE
    ELSE s[key].count >= cost

\* on expiry only count is reset; createdAt keeps the instant of creation
ExpiringRefreshed(b, max, expiresInSeconds, t) ==
    IF Expired(b, expiresInSeconds, t)
    THEN [count |-> max, createdAt |-> b.createdAt]
    ELSE b

\* a consume whose creating call is not charged
ExpiringConsumeFreeFirst(s, max, expiresInSeconds, key, cost, t) ==
    IF ~MapHas(s, key)
    THEN [ok |-> TRUE, store |-> MapSet(s, key, [count |-> max, createdAt |-> t])]
    ELSE LET b == ExpiringRefreshed(s[key], max, expiresInSeconds, t) IN
         IF b.count < cost
         THEN [ok |-> FALSE, store |-> MapSet(s, key, b)]
         ELSE [ok |-> TRUE,
               store |-> MapSet(s, key, [count |-> b.count - cost, createdAt |-> b.createdAt])]

ExpiringConsume(s, max, expiresInSeconds, key, cost, t) ==
    IF ~MapHas(s, key)
    THEN [ok |-> TRUE, store |-> MapSet(s, key, [count |-> max - cost, createdAt |-> t])]
    ELSE LET b == ExpiringRefreshed(s[key], max, expiresInSeconds, t) IN
         IF b.count < cost
         THEN [ok |-> FALSE, store |-> MapSet(s, key, b)]
         ELSE [ok |-> TRUE,
               store |-> MapSet(s, key, [count |-> b.count - cost, createdAt |-> b.createdAt])]

ExpiringReset(s, key) == MapDelete(s, key)

----------------------------------------------------------------------------
(* History of the expiring bucket: the fixed windows of length
   expiresInSeconds counted from the creation of the entry, and the cost
   granted in the window in progress.  largest is the largest single cost
   granted since the entry was created. *)

WinAfter(w, key, cost, t) ==
    IF ~MapHas(w, key)
    THEN MapSet(w, key, [start |-> t, spent |-> cost, index |-> 0, largest |-> cost])
    ELSE LET k == (t - w[key].start) \div cfg.expiresInSeconds IN
         IF k > 0
         THEN MapSet(w, key, [start |-> w[key].start + k * cfg.expiresInSeconds,
                              spent |-> cost, index |-> w[key].index + k,
                              largest |-> IF cost > w[key].largest THEN cost
                                          ELSE w[key].largest])
         ELSE MapSet(w, key, [w[key] EXCEPT !.spent = @ + cost,
                                            !.largest = IF cost > @ THEN cost ELSE @])

----------------------------------------------------------------------------
(* The limiter classes on their own: any caller, any key, any cost.  A
   behaviour exercises one instance, of the class cfg.class. *)

InitBucket ==
    /\ now = 0
    /\ cfg \in {c \in [class : {"expiring", "refilling"},
                        max : 1..MaxBucketMax,
                        expiresInSeconds : 1..MaxWindow,
                        refillIntervalSeconds : 1..MaxWindow] :
                    c.expiresInSeconds = c.refillIntervalSeconds}
    /\ eStore = EmptyMap
    /\ rStore = EmptyMap
    /\ eWin = EmptyMap
    /\ last = [op |-> "none", key |-> "k1", cost |-> 0, ok |-> TRUE, at |-> 0]
    /\ ops = 0
    /\ users = EmptyMap
    /\ sessions = EmptyMap
    /\ resetSessions = EmptyMap
    /\ lim = EmptyMap
    /\ reqs = EmptyMap
    /\ cookies = EmptyMap
    /\ nextId = 0
    /\ emailRequests = EmptyMap
    /\ sent = {}
    /\ wrongCodes = <<>>
    /\ budget = 0

Tick ==
    /\ now < MaxNow
    /\ now' = now + 1
    /\ UNCHANGED bucketVars
    /\ UNCHANGED authVars

BExpiringCheck(key, cost) ==
    /\ cfg.class = "expiring"
    /\ ops < MaxOps
    /\ ops' = ops + 1
    /\ last' = [op |-> "eCheck", key |-> key, cost |-> cost, at |-> now,
                ok |-> ExpiringCheck(eStore, cfg.max, cfg.expiresInSeconds, key, cost, now)]
    /\ UNCHANGED <<now, cfg, eStore, rStore, eWin>>
    /\ UNCHANGED authVars

BExpiringConsume(key, cost) ==
    LET r == ExpiringConsume(eStore, cfg.max, cfg.expiresInSeconds, key, cost, now) IN
    /\ cfg.class = "expiring"
    /\ ops < MaxOps
    /\ ops' = ops + 1
    /\ eStore' = r.store
    /\ eWin' = IF r.ok THEN WinAfter(eWin, key, cost, now) ELSE eWin
    /\ last' = [op |-> "eConsume", key |-> key, cost |-> cost, at |-> now, ok |-> r.ok]
    /\ UNCHANGED <<now, cfg, rStore>>
    /\ UNCHANGED authVars

BExpiringReset(key) ==
    /\ cfg.class = "expiring"
    /\ ops < MaxOps
    /\ ops' = ops + 1
    /\ eStore' = ExpiringReset(eStore, key)
    /\ eWin' = MapDelete(eWin, key)
    /\ last' = [op |-> "eReset", key |-> key, cost |-> 0, at |-> now, ok |-> TRUE]
    /\ UNCHANGED <<now, cfg, rStore>>
    /\ UNCHANGED authVars

\* history: a check also records the call it comes after
BRefillingCheck(key, cost) ==
    /\ cfg.class = "refilling"
    /\ ops < MaxOps
    /\ ops' = ops + 1
    /\ last' = [op |-> "rCheck", key |-> key, cost |-> cost, at |-> now,
                ok |-> RefillingCheck(rStore, cfg.max, cfg.refillIntervalSeconds, key, cost, now),
                after |-> [op |-> last.op, key |-> last.key, cost |-> last.cost,
                           ok |-> last.ok, at |-> last.at]]
    /\ UNCHANGED <<now, cfg, eStore, rStore, eWin>>
    /\ UNCHANGED authVars

\* history: a consume also records the call it comes after
BRefillingConsume(key, cost) ==
    LET r == RefillingConsume(rStore, cfg.max, cfg.refillIntervalSeconds, key, cost, now) IN
    /\ cfg.class = "refilling"
    /\ ops < MaxOps
    /\ ops' = ops + 1
    /\ rStore' = r.store
    /\ last' = [op |-> "rConsume", key |-> key, cost |-> cost, at |-> now, ok |-> r.ok,
                after |-> [op |-> last.op, key |-> last.key, cost |-> last.cost,
                           ok |-> last.ok, at |-> last.at]]
    /\ UNCHANGED <<now, cfg, eStore, eWin>>
    /\ UNCHANGED authVars

NextBucket ==
    \/ Tick
    \/ \E key \in Keys, cost \in 1..MaxCost : BExpiringCheck(key, cost)
    \/ \E key \in Keys, cost \in 1..MaxCost : BExpiringConsume(key, cost)
    \/ \E key \in Keys : BExpiringReset(key)
    \/ \E key \in Keys, cost \in 1..MaxCost : BRefillingCheck(key, cost)
    \/ \E key \in Keys, cost \in 1..MaxCost : BRefillingConsume(key, cost)

SpecBucket == InitBucket /\ [][NextBucket]_vars

----------------------------------------------------------------------------
(* Throttler *)

\* a consume that never raises the level
ThrottlerConsumeFlat(s, timeoutSeconds, key, t) ==
    IF ~MapHas(s, key)
    THEN [ok |-> TRUE, store |-> MapSet(s, key, [timeout |-> 0, updatedAt |-> t])]
    ELSE IF ~(t - s[key].updatedAt >= timeoutSeconds[s[key].timeout + 1])
    THEN [ok |-> FALSE, store |-> s]
    ELSE [ok |-> TRUE, store |-> MapSet(s, key, [timeout |-> s[key].timeout, updatedAt |-> t])]

\* a consume whose rejection restarts the wait
ThrottlerConsumeRestarting(s, timeoutSeconds, key, t) ==
    IF ~MapHas(s, key)
    THEN [ok |-> TRUE, store |-> MapSet(s, key, [timeout |-> 0, updatedAt |-> t])]
    ELSE IF ~(t - s[key].updatedAt >= timeoutSeconds[s[key].timeout + 1])
    THEN [ok |-> FALSE, store |-> MapSet(s, key, [s[key] EXCEPT !.updatedAt = t])]
    ELSE [ok |-> TRUE,
          store |-> MapSet(s, key, [timeout |-> Min(s[key].timeout + 1, Len(timeoutSeconds) - 1),
                                    updatedAt |-> t])]

\* timeoutSeconds is indexed from 0 in the source, sequences from 1 here
ThrottlerConsume(s, timeoutSeconds, key, t) ==
    IF ~MapHas(s, key)
    THEN [ok |-> TRUE, store |-> MapSet(s, key, [timeout |-> 0, updatedAt |-> t])]
    ELSE IF ~(t - s[key].updatedAt >= timeoutSeconds[s[key].timeout + 1])
    THEN [ok |-> FALSE, store |-> s]
    ELSE [ok |-> TRUE,
          store |-> MapSet(s, key, [timeout |-> Min(s[key].timeout + 1, Len(timeoutSeconds) - 1),
                                    updatedAt |-> t])]

\* a reset that puts the level back to 0 and keeps the entry
ThrottlerResetKeepingEntry(s, key) ==
    IF MapHas(s, key) THEN MapSet(s, key, [s[key] EXCEPT !.timeout = 0]) ELSE s

ThrottlerReset(s, key) == MapDelete(s, key)

----------------------------------------------------------------------------
(* The limiter instances of the application and their parameters *)

GlobalBucketMax == 100
GlobalBucketRefill == 1
GETCost == 1
POSTCost == 3
LoginIPBucketMax == 20
LoginIPBucketRefill == 1
LoginTimeouts == <<1, 2, 4, 8, 16, 30, 60, 180, 300>>
TotpBucketMax == 5
TotpBucketExpires == 60 * 30
RecoveryCodeBucketMax == 3
RecoveryCodeBucketExpires == 60 * 60
PasswordUpdateBucketMax == 5
PasswordUpdateBucketExpires == 60 * 30

VerifyEmailBucketMax == 5
VerifyEmailBucketExpires == 60 * 30
SendVerificationEmailBucketMax == 3
SendVerificationEmailBucketExpires == 60 * 10
TotpUpdateBucketMax == 3
TotpUpdateBucketRefill == 60 * 10

LimiterNames == {"globalBucket", "ipBucket", "throttler", "totpBucket",
                 "recoveryCodeBucket", "passwordUpdateBucket",
                 "verifyEmailBucket", "sendVerificationEmailBucket",
                 "totpUpdateBucket", "passwordResetEmailIPBucket",
                 "passwordResetEmailUserBucket"}

\* headers().get("X-Forwarded-For") === null
NoIP == "null"

\* globalGETRateLimit(): the result and the storage of globalBucket after it
GlobalGETRateLimit(s, clientIP, t) ==
    IF clientIP = NoIP THEN [ok |-> TRUE, store |-> s]
    ELSE RefillingConsume(s, GlobalBucketMax, GlobalBucketRefill, clientIP, GETCost, t)

\* a global gate that charges the bucket under the absent address as well
GlobalPOSTRateLimitAnyIP(s, clientIP, t) ==
    RefillingConsume(s, GlobalBucketMax, GlobalBucketRefill, clientIP, POSTCost, t)

\* globalPOSTRateLimit(): the result and the storage of globalBucket after it
GlobalPOSTRateLimit(s, clientIP, t) ==
    IF clientIP = NoIP THEN [ok |-> TRUE, store |-> s]
    ELSE RefillingConsume(s, GlobalBucketMax, GlobalBucketRefill, clientIP, POSTCost, t)

----------------------------------------------------------------------------
(* Opaque capabilities: hashing, encryption, random values.
   A hash keeps the password it was made of and its salt; a ciphertext keeps
   its plaintext and its IV.  Random values (salts, IVs, tokens, recovery
   codes) are drawn fresh: the n-th request draws values no other request
   draws. *)

HashPassword(password, salt) == [password |-> password, salt |-> salt]
\* a verification that accepts every password
AcceptAnyPassword(hash, password) == TRUE
VerifyPasswordHash(hash, password) == hash.password = password
\* shorter than 8 characters, or listed by the breach database
WeakPasswords == {"weak"}
VerifyPasswordStrength(password) == password \notin WeakPasswords

EncryptString(data, iv) == [iv |-> iv, data |-> data]
DecryptToString(encrypted) == encrypted.data

\* the id a token is stored under: sha256, one-way and injective
SessionIdOf(token) == <<"sha256", token>>

FirstFreshValue == 100
Fresh(rid) == FirstFreshValue + rid
GenerateSessionToken(rid) == Fresh(rid)
GenerateRandomRecoveryCode(rid) == Fresh(rid)

\* verifyTOTP(key, 30, 6, code): a code is the key it was computed from
VerifyTOTP(totpKey, code) == code = totpKey
NoTOTPKey == "NULL"

----------------------------------------------------------------------------
(* Session manager (lib/server/session.ts) *)

SessionLifetime == 60 * 60 * 24 * 30
RenewalWindow == 60 * 60 * 24 * 15

NullSession == [present |-> FALSE, id |-> SessionIdOf(0), userId |-> 0,
                expiresAt |-> 0, twoFactorVerified |-> FALSE]
NullUser == [id |-> 0, email |-> "", emailVerified |-> FALSE, registered2FA |-> FALSE]

UserView(us, userId) ==
    [id |-> userId, email |-> us[userId].email,
     emailVerified |-> us[userId].emailVerified,
     registered2FA |-> us[userId].totpKey # NoTOTPKey]

\* a validation that never renews
ValidateSessionTokenNeverRenewing(ss, us, token, t) ==
    LET sid == SessionIdOf(token) IN
    IF ~MapHas(ss, sid)
    THEN [session |-> NullSession, user |-> NullUser, sessions |-> ss]
    ELSE IF t >= ss[sid].expiresAt
    THEN [session |-> NullSession, user |-> NullUser, sessions |-> MapDelete(ss, sid)]
    ELSE [session |-> [present |-> TRUE, id |-> sid, userId |-> ss[sid].userId,
                       expiresAt |-> ss[sid].expiresAt,
                       twoFactorVerified |-> ss[sid].twoFactorVerified],
          user |-> UserView(us, ss[sid].userId),
          sessions |-> ss]

\* a validation that renews on every call
ValidateSessionTokenAlwaysRenewing(ss, us, token, t) ==
    LET sid == SessionIdOf(token) IN
    IF ~MapHas(ss, sid)
    THEN [session |-> NullSession, user |-> NullUser, sessions |-> ss]
    ELSE IF t >= ss[sid].expiresAt
    THEN [session |-> NullSession, user |-> NullUser, sessions |-> MapDelete(ss, sid)]
    ELSE [session |-> [present |-> TRUE, id |-> sid, userId |-> ss[sid].userId,
                       expiresAt |-> t + SessionLifetime,
                       twoFactorVerified |-> ss[sid].twoFactorVerified],
          user |-> UserView(us, ss[sid].userId),
          sessions |-> [ss EXCEPT ![sid].expiresAt = t + SessionLifetime]]

\* a validation that turns an expired session down and keeps its row
ValidateSessionTokenKeepingExpired(ss, us, token, t) ==
    LET sid == SessionIdOf(token) IN
    IF ~MapHas(ss, sid) \/ t >= ss[sid].expiresAt
    THEN [session |-> NullSession, user |-> NullUser, sessions |-> ss]
    ELSE LET expiresAt == IF t >= ss[sid].expiresAt - RenewalWindow
                          THEN t + SessionLifetime ELSE ss[sid].expiresAt
         IN [session |-> [present |-> TRUE, id |-> sid, userId |-> ss[sid].userId,
                          expiresAt |-> expiresAt,
                          twoFactorVerified |-> ss[sid].twoFactorVerified],
             user |-> UserView(us, ss[sid].userId),
             sessions |-> [ss EXCEPT ![sid].expiresAt = expiresAt]]

\* validateSessionToken: the result and the session table after it
ValidateSessionToken(ss, us, token, t) ==
    LET sid == SessionIdOf(token) IN
    IF ~MapHas(ss, sid)
    THEN [session |-> NullSession, user |-> NullUser, sessions |-> ss]
    ELSE IF t >= ss[sid].expiresAt
    THEN [session |-> NullSession, user |-> NullUser, sessions |-> MapDelete(ss, sid)]
    ELSE LET expiresAt == IF t >= ss[sid].expiresAt - RenewalWindow
                          THEN t + SessionLifetime ELSE ss[sid].expiresAt
         IN [session |-> [present |-> TRUE, id |-> sid, userId |-> ss[sid].userId,
                          expiresAt |-> expiresAt,
                          twoFactorVerified |-> ss[sid].twoFactorVerified],
             user |-> UserView(us, ss[sid].userId),
             sessions |-> [ss EXCEPT ![sid].expiresAt = expiresAt]]

\* a session created verified, whatever the flags
CreateVerifiedSession(ss, token, userId, flags, t) ==
    MapSet(ss, SessionIdOf(token),
           [userId |-> userId, expiresAt |-> t + SessionLifetime,
            twoFactorVerified |-> TRUE])

CreateSession(ss, token, userId, flags, t) ==
    MapSet(ss, SessionIdOf(token),
           [userId |-> userId, expiresAt |-> t + SessionLifetime,
            twoFactorVerified |-> flags.twoFactorVerified])

InvalidateSession(ss, sessionId) == MapDelete(ss, sessionId)

InvalidateUserSessions(ss, userId) ==
    [x \in {y \in DOMAIN ss : ss[y].userId # userId} |-> ss[x]]

\* an UPDATE that leaves the session alone verified
SetOnlySessionAs2FAVerified(ss, sessionId) ==
    [x \in DOMAIN ss |-> [ss[x] EXCEPT !.twoFactorVerified = (x = sessionId)]]

SetSessionAs2FAVerified(ss, sessionId) ==
    [x \in DOMAIN ss |-> IF x = sessionId THEN [ss[x] EXCEPT !.twoFactorVerified = TRUE]
                         ELSE ss[x]]

----------------------------------------------------------------------------
(* User table (lib/server/user.ts) *)

GetUserFromEmail(us, email) ==
    IF \E u \in DOMAIN us : us[u].email = email
    THEN UserView(us, CHOOSE u \in DOMAIN us : us[u].email = email)
    ELSE NullUser

\* an UPDATE that stores nothing
KeepUserTOTPKey(us, userId, key) == us
\* UPDATE user SET totp_key = ? WHERE id = ?
UpdateUserTOTPKey(us, userId, key) ==
    [x \in DOMAIN us |-> IF x = userId THEN [us[x] EXCEPT !.totpKey = key] ELSE us[x]]

UpdateUserPassword(us, userId, passwordHash) ==
    [x \in DOMAIN us |-> IF x = userId THEN [us[x] EXCEPT !.passwordHash = passwordHash]
                         ELSE us[x]]

ResetUserRecoveryCode(us, userId, encrypted) ==
    [x \in DOMAIN us |-> IF x = userId THEN [us[x] EXCEPT !.recoveryCode = encrypted]
                         ELSE us[x]]

----------------------------------------------------------------------------
(* Two-factor recovery (lib/server/2fa.ts), statement by statement *)

\* UPDATE session SET two_factor_verified = 0 WHERE user_id = ?
ClearUser2FAVerified(ss, userId) ==
    [x \in DOMAIN ss |-> IF ss[x].userId = userId
                         THEN [ss[x] EXCEPT !.twoFactorVerified = FALSE]
                         ELSE ss[x]]

\* the UPDATE without its comparison with the recovery code read before
RotateRecoveryCodeAlways(us, userId, encryptedNew, encryptedOld) ==
    [changes |-> 1,
     users |-> [us EXCEPT ![userId].recoveryCode = encryptedNew,
                          ![userId].totpKey = NoTOTPKey]]

\* UPDATE user SET recovery_code = ?, totp_key = NULL
\*   WHERE id = ? AND recovery_code = ?        (changes > 0 iff the row matched)
RotateRecoveryCodeIfUnchanged(us, userId, encryptedNew, encryptedOld) ==
    IF MapHas(us, userId) /\ us[userId].recoveryCode = encryptedOld
    THEN [changes |-> 1,
          users |-> [us EXCEPT ![userId].recoveryCode = encryptedNew,
                               ![userId].totpKey = NoTOTPKey]]
    ELSE [changes |-> 0, users |-> us]

----------------------------------------------------------------------------
(* Password-reset sessions (lib/server/password-reset.ts) *)

NullResetSession == [present |-> FALSE, id |-> SessionIdOf(0), userId |-> 0,
                     expiresAt |-> 0, emailVerified |-> FALSE,
                     twoFactorVerified |-> FALSE]

\* a validation that does not look at the expiry
ValidateExpiredResetSessionToken(rs, us, token, t) ==
    LET sid == SessionIdOf(token) IN
    IF ~MapHas(rs, sid)
    THEN [session |-> NullResetSession, user |-> NullUser, resetSessions |-> rs]
    ELSE [session |-> [present |-> TRUE, id |-> sid, userId |-> rs[sid].userId,
                       expiresAt |-> rs[sid].expiresAt,
                       emailVerified |-> rs[sid].emailVerified,
                       twoFactorVerified |-> rs[sid].twoFactorVerified],
          user |-> UserView(us, rs[sid].userId),
          resetSessions |-> rs]

\* validatePasswordResetSessionToken: the result and the table after it
ValidatePasswordResetSessionToken(rs, us, token, t) ==
    LET sid == SessionIdOf(token) IN
    IF ~MapHas(rs, sid)
    THEN [session |-> NullResetSession, user |-> NullUser, resetSessions |-> rs]
    ELSE IF t >= rs[sid].expiresAt
    THEN [session |-> NullResetSession, user |-> NullUser,
          resetSessions |-> MapDelete(rs, sid)]
    ELSE [session |-> [present |-> TRUE, id |-> sid, userId |-> rs[sid].userId,
                       expiresAt |-> rs[sid].expiresAt,
                       emailVerified |-> rs[sid].emailVerified,
                       twoFactorVerified |-> rs[sid].twoFactorVerified],
          user |-> UserView(us, rs[sid].userId),
          resetSessions |-> rs]

InvalidateUserPasswordResetSessions(rs, userId) ==
    [x \in {y \in DOMAIN rs : rs[y].userId # userId} |-> rs[x]]

----------------------------------------------------------------------------
(* Email verification requests (lib/server/email-verification.ts) *)

EmailRequestLifetime == 60 * 10

NullEmailRequest == [present |-> FALSE, id |-> 0, userId |-> 0, code |-> 0,
                     email |-> "", expiresAt |-> 0]

\* SELECT ... FROM email_verification_request WHERE id = ? AND user_id = ?
GetUserEmailVerificationRequest(er, userId, id) ==
    IF MapHas(er, id) /\ er[id].userId = userId
    THEN [present |-> TRUE, id |-> id, userId |-> er[id].userId, code |-> er[id].code,
          email |-> er[id].email, expiresAt |-> er[id].expiresAt]
    ELSE NullEmailRequest

\* DELETE FROM email_verification_request WHERE user_id = ?
DeleteUserEmailVerificationRequest(er, userId) ==
    [x \in {y \in DOMAIN er : er[y].userId # userId} |-> er[x]]

\* an INSERT that gives the row no time to live
InsertExpiredEmailVerificationRequest(er, id, userId, code, email, t) ==
    MapSet(er, id, [userId |-> userId, code |-> code, email |-> email, expiresAt |-> t])

\* the INSERT of createEmailVerificationRequest
InsertEmailVerificationRequest(er, id, userId, code, email, t) ==
    MapSet(er, id, [userId |-> userId, code |-> code, email |-> email,
                    expiresAt |-> t + EmailRequestLifetime])

\* an email address is well-formed unless it is one of these
MalformedEmails == {"bad"}
VerifyEmailInput(email) == email \notin MalformedEmails

CheckEmailAvailability(us, email) == ~\E u \in DOMAIN us : us[u].email = email

\* an UPDATE that marks the row verified and leaves its address alone
SetEmailAsVerifiedOnly(us, userId, email) ==
    [x \in DOMAIN us |-> IF x = userId THEN [us[x] EXCEPT !.emailVerified = TRUE]
                         ELSE us[x]]

\* UPDATE user SET email = ?, email_verified = 1 WHERE id = ?
UpdateUserEmailAndSetEmailAsVerified(us, userId, email) ==
    [x \in DOMAIN us |-> IF x = userId
                         THEN [us[x] EXCEPT !.email = email, !.emailVerified = TRUE]
                         ELSE us[x]]

\* the value generateRandomOTP and the id bytes of a request draw
GenerateRandomOTP(rid) == Fresh(rid)

----------------------------------------------------------------------------
(* The application: two clients send requests, one at a time each; the
   requests of different clients run concurrently.  A step of a request is a
   piece of its handler that holds at most one store write and ends at an
   await or before the next store write; validateSessionToken and
   validatePasswordResetSessionToken (a read and the write it decides) are
   one piece. *)

MaxReqs == 2            \* requests started per behaviour
MaxJumps == 1           \* clock jumps of RenewalWindow seconds per behaviour

Clients == {"c1", "c2"}
ClientIP(c) == IF c = "c1" THEN "10.0.0.1" ELSE NoIP


NoReq == [kind |-> "none", pc |-> "idle", rid |-> 0, ip |-> NoIP,
          email |-> "", password |-> "", newPassword |-> "", code |-> 0, totp |-> "",
          session |-> NullSession, user |-> NullUser, rsession |-> NullResetSession,
          hash |-> HashPassword("", 0), enc |-> EncryptString(0, 0),
          issued |-> 0, ret |-> "", touched |-> {},
          vreq |-> NullEmailRequest, at |-> 0, key |-> ""]

Running(c) == reqs[c].pc \notin {"idle", "done"}
CanStart(c) == ~Running(c) /\ nextId < budget
NewReq(c, kind) == [NoReq EXCEPT !.kind = kind, !.rid = nextId + 1, !.ip = ClientIP(c)]
Finish(r, message) == [r EXCEPT !.pc = "done", !.ret = message]

\* history: the parts of the state a step changes
Touched(us, ss, rs, lm) ==
    {n \in LimiterNames : lm[n] # lim[n]}
    \cup (IF \E u \in DOMAIN us : us[u].passwordHash # users[u].passwordHash
          THEN {"passwordHash"} ELSE {})
    \cup (IF \E u \in DOMAIN us : us[u].recoveryCode # users[u].recoveryCode
          THEN {"recoveryCode"} ELSE {})
    \cup (IF \E u \in DOMAIN us : us[u].totpKey # users[u].totpKey
          THEN {"totpKey"} ELSE {})
    \cup (IF DOMAIN ss # DOMAIN sessions THEN {"sessionSet"} ELSE {})
    \cup (IF \E x \in DOMAIN ss \cap DOMAIN sessions :
                ss[x].twoFactorVerified # sessions[x].twoFactorVerified
          THEN {"twoFactorVerified"} ELSE {})
    \cup (IF \E x \in DOMAIN ss \cap DOMAIN sessions :
                ss[x].expiresAt # sessions[x].expiresAt
          THEN {"expiresAt"} ELSE {})
    \cup (IF rs # resetSessions THEN {"resetSessions"} ELSE {})

\* history: the parts of the email verification state a step changes
TouchedEmail(us, er) ==
    (IF \E u \in DOMAIN us \cap DOMAIN users : us[u].email # users[u].email
     THEN {"email"} ELSE {})
    \cup (IF \E u \in DOMAIN us \cap DOMAIN users :
                us[u].emailVerified # users[u].emailVerified
          THEN {"emailVerified"} ELSE {})
    \cup (IF er # emailRequests THEN {"emailRequests"} ELSE {})

\* history: a TOTP code turned down is noted, a code accepted clears the notes
\* of the user
WrongCodesAfter(r) ==
    IF r.kind = "verify2FA" /\ r.pc = "done" /\ r.ret = "Invalid code"
    THEN Append(wrongCodes, [userId |-> r.user.id, at |-> now])
    ELSE IF r.kind = "verify2FA" /\ r.pc = "done" /\ r.ret = "redirect"
    THEN SelectSeq(wrongCodes, LAMBDA w : w.userId # r.user.id)
    ELSE wrongCodes

\* one step of the request of client c: its record and the state after it
CommitEmail(c, r, us, ss, rs, lm, ck, er, sn) ==
    /\ reqs' = [reqs EXCEPT ![c] = [r EXCEPT !.touched = @ \cup Touched(us, ss, rs, lm)
                                                          \cup TouchedEmail(us, er)]]
    /\ users' = us
    /\ sessions' = ss
    /\ resetSessions' = rs
    /\ lim' = lm
    /\ cookies' = ck
    /\ nextId' = IF Running(c) THEN nextId ELSE nextId + 1
    /\ emailRequests' = er
    /\ sent' = sn
    /\ wrongCodes' = WrongCodesAfter(r)
    /\ UNCHANGED budget
    /\ UNCHANGED now
    /\ UNCHANGED bucketVars

\* a step that leaves the email verification state alone
Commit(c, r, us, ss, rs, lm, ck) ==
    CommitEmail(c, r, us, ss, rs, lm, ck, emailRequests, sent)

\* a step that only moves the request on
Only(c, r) == Commit(c, r, users, sessions, resetSessions, lim, cookies)

InitUsers ==
    1 :> [email |-> "a@x", emailVerified |-> TRUE, totpKey |-> "key1",
          passwordHash |-> HashPassword("p0", 1),
          recoveryCode |-> EncryptString(1, 1)]
    @@
    2 :> [email |-> "b@x", emailVerified |-> TRUE, totpKey |-> NoTOTPKey,
          passwordHash |-> HashPassword("p0", 2),
          recoveryCode |-> EncryptString(2, 2)]

\* the token in the session cookie of a client that is logged in at the start
InitToken(c) == IF c = "c1" THEN 11 ELSE 12
InitResetToken == 21

\* How the clients start: <<c1, c2, reset>>.  A client is logged out
\* ("none"), logged in as user 1 without the 2FA step ("pending") or with it
\* ("verified"), or logged in as user 2 ("user2"); client c1 may have carried
\* a password reset of user 1 or of user 2 up to its last step.
Scenarios == {<<"pending", "pending", "none">>,
              <<"verified", "pending", "none">>,
              <<"user2", "pending", "none">>,
              <<"none", "verified", "user1">>,
              <<"none", "none", "user2">>}

\* a session row of the start: created now, or RenewalWindow seconds ago
InitSessionRow(state, age) ==
    [userId |-> IF state = "user2" THEN 2 ELSE 1,
     expiresAt |-> SessionLifetime - age,
     twoFactorVerified |-> state = "verified"]

\* The state the behaviours start in: user 1 has verified its email and set up
\* 2FA, user 2 has verified its email only; both are logged in on a device of
\* their own (tokens 1 and 2), and the clients are in one of the Scenarios;
\* the session of client c2 is an older one, already due for renewal.
Init ==
    /\ now = 0
    /\ cfg = [class |-> "none", max |-> 0, expiresInSeconds |-> 0,
              refillIntervalSeconds |-> 0]
    /\ eStore = EmptyMap
    /\ rStore = EmptyMap
    /\ eWin = EmptyMap
    /\ last = [op |-> "none", key |-> "k1", cost |-> 0, ok |-> TRUE, at |-> 0]
    /\ ops = 0
    /\ users = InitUsers
    /\ \E sc \in Scenarios :
        LET login == [c \in Clients |-> IF c = "c1" THEN sc[1] ELSE sc[2]]
            reset == sc[3]
        IN
        /\ sessions =
             [x \in {SessionIdOf(1), SessionIdOf(2)}
                    \cup {SessionIdOf(InitToken(c)) : c \in {d \in Clients : login[d] # "none"}}
              |-> IF x = SessionIdOf(1) THEN InitSessionRow("verified", 0)
                  ELSE IF x = SessionIdOf(2) THEN InitSessionRow("user2", 0)
                  ELSE IF x = SessionIdOf(InitToken("c1")) THEN InitSessionRow(login["c1"], 0)
                  ELSE InitSessionRow(login["c2"], RenewalWindow)]
        /\ resetSessions =
             IF reset = "none" THEN EmptyMap
             ELSE SessionIdOf(InitResetToken) :>
                    [userId |-> IF reset = "user1" THEN 1 ELSE 2,
                     expiresAt |-> 60 * 10, emailVerified |-> TRUE,
                     twoFactorVerified |-> reset = "user1"]
        /\ cookies = [c \in Clients |->
                        [session |-> IF login[c] = "none" THEN 0 ELSE InitToken(c),
                         reset |-> IF c = "c1" /\ reset # "none" THEN InitResetToken ELSE 0,
                         email |-> 0]]
    /\ lim = [n \in LimiterNames |-> EmptyMap]
    /\ reqs = [c \in Clients |-> NoReq]
    /\ nextId = 0
    /\ emailRequests = EmptyMap
    /\ sent = {}
    /\ wrongCodes = <<>>
    /\ budget = MaxReqs

\* Time passes between requests, RenewalWindow seconds at a time: a request in
\* flight takes far less than that.
AdvanceClock ==
    /\ \A c \in Clients : ~Running(c)
    /\ now + RenewalWindow <= MaxJumps * RenewalWindow
    /\ now' = now + RenewalWindow
    /\ UNCHANGED bucketVars
    /\ UNCHANGED authVars

----------------------------------------------------------------------------
(* loginAction *)

\* up to the await of verifyPasswordHash
LoginStart(c, email, password) ==
    LET r == [NewReq(c, "login") EXCEPT !.email = email, !.password = password]
        g == GlobalPOSTRateLimit(lim.globalBucket, r.ip, now)
        lm1 == [lim EXCEPT !.globalBucket = g.store]
        user == GetUserFromEmail(users, email)
        ip == IF r.ip = NoIP THEN [ok |-> TRUE, store |-> lm1.ipBucket]
              ELSE RefillingConsume(lm1.ipBucket, LoginIPBucketMax, LoginIPBucketRefill,
                                    r.ip, 1, now)
        lm2 == [lm1 EXCEPT !.ipBucket = ip.store]
        th == ThrottlerConsume(lm2.throttler, LoginTimeouts, user.id, now)
        lm3 == [lm2 EXCEPT !.throttler = th.store]
    IN
    /\ CanStart(c)
    /\ IF ~g.ok
       THEN Commit(c, Finish(r, "Too many requests"), users, sessions, resetSessions, lm1, cookies)
       ELSE IF r.ip # NoIP /\ ~RefillingCheck(lm1.ipBucket, LoginIPBucketMax,
                                               LoginIPBucketRefill, r.ip, 1, now)
       THEN Commit(c, Finish(r, "Too many requests"), users, sessions, resetSessions, lm1, cookies)
       ELSE IF user = NullUser
       THEN Commit(c, Finish(r, "Account does not exist"), users, sessions, resetSessions,
                   lm1, cookies)
       ELSE IF ~ip.ok
       THEN Commit(c, Finish(r, "Too many requests"), users, sessions, resetSessions, lm2, cookies)
       ELSE IF ~th.ok
       THEN Commit(c, Finish(r, "Too many requests"), users, sessions, resetSessions, lm3, cookies)
       ELSE Commit(c, [r EXCEPT !.pc = "verifyPasswordHash", !.user = user,
                                !.hash = users[user.id].passwordHash],
                   users, sessions, resetSessions, lm3, cookies)

\* after the await: the verdict on the hash read before it, and the session
LoginCreateSession(c) ==
    LET r == reqs[c]
        token == GenerateSessionToken(r.rid)
    IN
    /\ r.kind = "login" /\ r.pc = "verifyPasswordHash"
    /\ IF ~VerifyPasswordHash(r.hash, r.password)
       THEN Only(c, Finish(r, "Invalid password"))
       ELSE Commit(c, [Finish(r, "redirect") EXCEPT !.issued = token],
                   users,
                   CreateSession(sessions, token, r.user.id, [twoFactorVerified |-> FALSE], now),
                   resetSessions,
                   [lim EXCEPT !.throttler = ThrottlerReset(@, r.user.id)],
                   [cookies EXCEPT ![c].session = token])

----------------------------------------------------------------------------
(* logoutAction *)

LogoutStart(c) ==
    LET r == NewReq(c, "logout")
        g == GlobalPOSTRateLimit(lim.globalBucket, r.ip, now)
        lm1 == [lim EXCEPT !.globalBucket = g.store]
        v == ValidateSessionToken(sessions, users, cookies[c].session, now)
    IN
    /\ CanStart(c)
    /\ IF ~g.ok
       THEN Commit(c, Finish(r, "Too many requests"), users, sessions, resetSessions, lm1, cookies)
       ELSE IF ~v.session.present
       THEN Commit(c, Finish(r, "Not authenticated"), users, v.sessions, resetSessions,
                   lm1, cookies)
       ELSE Commit(c, [r EXCEPT !.pc = "invalidateSession", !.session = v.session,
                                !.user = v.user],
                   users, v.sessions, resetSessions, lm1, cookies)

LogoutInvalidate(c) ==
    LET r == reqs[c] IN
    /\ r.kind = "logout" /\ r.pc = "invalidateSession"
    /\ Commit(c, Finish(r, "redirect"), users, InvalidateSession(sessions, r.session.id),
              resetSessions, lim, [cookies EXCEPT ![c].session = 0])

----------------------------------------------------------------------------
(* verify2FAAction *)

\* up to the verdict of verifyTOTP on the key read by getUserTOTPKey
Verify2FAStart(c, code) ==
    LET r == [NewReq(c, "verify2FA") EXCEPT !.totp = code]
        g == GlobalPOSTRateLimit(lim.globalBucket, r.ip, now)
        lm1 == [lim EXCEPT !.globalBucket = g.store]
        v == ValidateSessionToken(sessions, users, cookies[c].session, now)
        b == ExpiringConsume(lm1.totpBucket, TotpBucketMax, TotpBucketExpires,
                             v.user.id, 1, now)
        lm2 == [lm1 EXCEPT !.totpBucket = b.store]
        totpKey == users[v.user.id].totpKey
    IN
    /\ CanStart(c)
    /\ IF ~g.ok
       THEN Commit(c, Finish(r, "Too many requests"), users, sessions, resetSessions, lm1, cookies)
       ELSE IF ~v.session.present
       THEN Commit(c, Finish(r, "Not authenticated"), users, v.sessions, resetSessions,
                   lm1, cookies)
       ELSE IF ~v.user.emailVerified \/ ~v.user.registered2FA \/ v.session.twoFactorVerified
       THEN Commit(c, Finish(r, "Forbidden"), users, v.sessions, resetSessions, lm1, cookies)
       ELSE IF ~ExpiringCheck(lm1.totpBucket, TotpBucketMax, TotpBucketExpires,
                              v.user.id, 1, now)
       THEN Commit(c, Finish(r, "Too many requests"), users, v.sessions, resetSessions,
                   lm1, cookies)
       ELSE IF ~b.ok
       THEN Commit(c, Finish(r, "Too many requests"), users, v.sessions, resetSessions,
                   lm2, cookies)
       ELSE IF totpKey = NoTOTPKey
       THEN Commit(c, Finish(r, "Forbidden"), users, v.sessions, resetSessions, lm2, cookies)
       ELSE IF ~VerifyTOTP(totpKey, code)
       THEN Commit(c, Finish([r EXCEPT !.session = v.session, !.user = v.user], "Invalid code"),
                   users, v.sessions, resetSessions, lm2, cookies)
       ELSE Commit(c, [r EXCEPT !.pc = "setSessionAs2FAVerified", !.session = v.session,
                                !.user = v.user],
                   users, v.sessions, resetSessions, lm2, cookies)

\* totpBucket.reset and the UPDATE of the session row
Verify2FASet(c) ==
    LET r == reqs[c] IN
    /\ r.kind = "verify2FA" /\ r.pc = "setSessionAs2FAVerified"
    /\ Commit(c, Finish(r, "redirect"), users,
              SetSessionAs2FAVerified(sessions, r.session.id), resetSessions,
              [lim EXCEPT !.totpBucket = ExpiringReset(@, r.user.id)], cookies)

----------------------------------------------------------------------------
(* regenerateRecoveryCodeAction *)

RegenerateStart(c) ==
    LET r == NewReq(c, "regenerateRecoveryCode")
        g == GlobalPOSTRateLimit(lim.globalBucket, r.ip, now)
        lm1 == [lim EXCEPT !.globalBucket = g.store]
        v == ValidateSessionToken(sessions, users, cookies[c].session, now)
    IN
    /\ CanStart(c)
    /\ IF ~g.ok
       THEN Commit(c, Finish(r, "Too many requests"), users, sessions, resetSessions, lm1, cookies)
       ELSE IF ~v.session.present
       THEN Commit(c, Finish(r, "Not authenticated"), users, v.sessions, resetSessions,
                   lm1, cookies)
       ELSE IF ~v.user.emailVerified \/ ~v.session.twoFactorVerified
       THEN Commit(c, Finish(r, "Forbidden"), users, v.sessions, resetSessions, lm1, cookies)
       ELSE Commit(c, [r EXCEPT !.pc = "resetUserRecoveryCode", !.session = v.session,
                                !.user = v.user],
                   users, v.sessions, resetSessions, lm1, cookies)

\* resetUserRecoveryCode: a fresh code, encrypted under a fresh IV, written
\* unconditionally
RegenerateWrite(c) ==
    LET r == reqs[c]
        encrypted == EncryptString(GenerateRandomRecoveryCode(r.rid), r.rid)
    IN
    /\ r.kind = "regenerateRecoveryCode" /\ r.pc = "resetUserRecoveryCode"
    /\ Commit(c, [Finish(r, "recoveryCode") EXCEPT !.code = GenerateRandomRecoveryCode(r.rid)],
              ResetUserRecoveryCode(users, r.session.userId, encrypted),
              sessions, resetSessions, lim, cookies)

----------------------------------------------------------------------------
(* reset2FAAction and resetUser2FAWithRecoveryCode *)

\* up to the comparison of the submitted code with the stored one; the
\* handler makes no call of globalPOSTRateLimit
\* a recovery open to 2FA-verified sessions
Reset2FAStartFromAnySession(c, code) ==
    LET r == [NewReq(c, "reset2FA") EXCEPT !.code = code]
        v == ValidateSessionToken(sessions, users, cookies[c].session, now)
        b == ExpiringConsume(lim.recoveryCodeBucket, RecoveryCodeBucketMax,
                             RecoveryCodeBucketExpires, v.user.id, 1, now)
        lm1 == [lim EXCEPT !.recoveryCodeBucket = b.store]
        encryptedRecoveryCode == users[v.user.id].recoveryCode
    IN
    /\ CanStart(c)
    /\ IF ~v.session.present
       THEN Commit(c, Finish(r, "Not authenticated"), users, v.sessions, resetSessions,
                   lim, cookies)
       ELSE IF ~v.user.emailVerified \/ ~v.user.registered2FA
       THEN Commit(c, Finish(r, "Forbidden"), users, v.sessions, resetSessions, lim, cookies)
       ELSE IF ~ExpiringCheck(lim.recoveryCodeBucket, RecoveryCodeBucketMax,
                              RecoveryCodeBucketExpires, v.user.id, 1, now)
       THEN Commit(c, Finish(r, "Too many requests"), users, v.sessions, resetSessions,
                   lim, cookies)
       ELSE IF ~b.ok
       THEN Commit(c, Finish(r, "Too many requests"), users, v.sessions, resetSessions,
                   lm1, cookies)
       ELSE IF code # DecryptToString(encryptedRecoveryCode)
       THEN Commit(c, Finish([r EXCEPT !.session = v.session, !.user = v.user,
                                       !.enc = encryptedRecoveryCode],
                             "Invalid recovery code"),
                   users, v.sessions, resetSessions, lm1, cookies)
       ELSE Commit(c, [r EXCEPT !.pc = "clearTwoFactorVerified", !.session = v.session,
                                !.user = v.user, !.enc = encryptedRecoveryCode],
                   users, v.sessions, resetSessions, lm1, cookies)

Reset2FAStart(c, code) ==
    LET r == [NewReq(c, "reset2FA") EXCEPT !.code = code]
        v == ValidateSessionToken(sessions, users, cookies[c].session, now)
        b == ExpiringConsume(lim.recoveryCodeBucket, RecoveryCodeBucketMax,
                             RecoveryCodeBucketExpires, v.user.id, 1, now)
        lm1 == [lim EXCEPT !.recoveryCodeBucket = b.store]
        encryptedRecoveryCode == users[v.user.id].recoveryCode
    IN
    /\ CanStart(c)
    /\ IF ~v.session.present
       THEN Commit(c, Finish(r, "Not authenticated"), users, v.sessions, resetSessions,
                   lim, cookies)
       ELSE IF ~v.user.emailVerified \/ ~v.user.registered2FA \/ v.session.twoFactorVerified
       THEN Commit(c, Finish(r, "Forbidden"), users, v.sessions, resetSessions, lim, cookies)
       ELSE IF ~ExpiringCheck(lim.recoveryCodeBucket, RecoveryCodeBucketMax,
                              RecoveryCodeBucketExpires, v.user.id, 1, now)
       THEN Commit(c, Finish(r, "Too many requests"), users, v.sessions, resetSessions,
                   lim, cookies)
       ELSE IF ~b.ok
       THEN Commit(c, Finish(r, "Too many requests"), users, v.sessions, resetSessions,
                   lm1, cookies)
       ELSE IF code # DecryptToString(encryptedRecoveryCode)
       THEN Commit(c, Finish([r EXCEPT !.session = v.session, !.user = v.user,
                                       !.enc = encryptedRecoveryCode],
                             "Invalid recovery code"),
                   users, v.sessions, resetSessions, lm1, cookies)
       ELSE Commit(c, [r EXCEPT !.pc = "clearTwoFactorVerified", !.session = v.session,
                                !.user = v.user, !.enc = encryptedRecoveryCode],
                   users, v.sessions, resetSessions, lm1, cookies)

\* UPDATE session SET two_factor_verified = 0 WHERE user_id = ?
Reset2FAClear(c) ==
    LET r == reqs[c] IN
    /\ r.kind = "reset2FA" /\ r.pc = "clearTwoFactorVerified"
    /\ Commit(c, [r EXCEPT !.pc = "rotateRecoveryCode"], users,
              ClearUser2FAVerified(sessions, r.user.id), resetSessions, lim, cookies)

\* the conditional UPDATE of the user row, and the handler's return
Reset2FARotate(c) ==
    LET r == reqs[c]
        encryptedNew == EncryptString(GenerateRandomRecoveryCode(r.rid), r.rid)
        result == RotateRecoveryCodeIfUnchanged(users, r.user.id, encryptedNew, r.enc)
    IN
    /\ r.kind = "reset2FA" /\ r.pc = "rotateRecoveryCode"
    /\ IF result.changes > 0
       THEN Commit(c, Finish(r, "redirect"), result.users, sessions, resetSessions,
                   [lim EXCEPT !.recoveryCodeBucket = ExpiringReset(@, r.user.id)], cookies)
       ELSE Commit(c, Finish(r, "Invalid recovery code"), result.users, sessions,
                   resetSessions, lim, cookies)

----------------------------------------------------------------------------
(* updatePasswordAction *)

\* up to the await of verifyPasswordStrength
UpdatePasswordStart(c, password, newPassword) ==
    LET r == [NewReq(c, "updatePassword") EXCEPT !.password = password,
                                                  !.newPassword = newPassword]
        g == GlobalPOSTRateLimit(lim.globalBucket, r.ip, now)
        lm1 == [lim EXCEPT !.globalBucket = g.store]
        v == ValidateSessionToken(sessions, users, cookies[c].session, now)
    IN
    /\ CanStart(c)
    /\ IF ~g.ok
       THEN Commit(c, Finish(r, "Too many requests"), users, sessions, resetSessions, lm1, cookies)
       ELSE IF ~v.session.present
       THEN Commit(c, Finish(r, "Not authenticated"), users, v.sessions, resetSessions,
                   lm1, cookies)
       ELSE IF v.user.registered2FA /\ ~v.session.twoFactorVerified
       THEN Commit(c, Finish(r, "Forbidden"), users, v.sessions, resetSessions, lm1, cookies)
       ELSE IF ~ExpiringCheck(lm1.passwordUpdateBucket, PasswordUpdateBucketMax,
                              PasswordUpdateBucketExpires, v.session.id, 1, now)
       THEN Commit(c, Finish(r, "Too many requests"), users, v.sessions, resetSessions,
                   lm1, cookies)
       ELSE Commit(c, [r EXCEPT !.pc = "verifyPasswordStrength", !.session = v.session,
                                !.user = v.user],
                   users, v.sessions, resetSessions, lm1, cookies)

\* updatePasswordAction going on to the comparison whatever consume answered
UpdatePasswordReadHashUnguarded(c) ==
    LET r == reqs[c]
        b == ExpiringConsume(lim.passwordUpdateBucket, PasswordUpdateBucketMax,
                             PasswordUpdateBucketExpires, r.session.id, 1, now)
        lm1 == [lim EXCEPT !.passwordUpdateBucket = b.store]
    IN
    /\ r.kind = "updatePassword" /\ r.pc = "verifyPasswordStrength"
    /\ IF ~VerifyPasswordStrength(r.newPassword)
       THEN Only(c, Finish(r, "Weak password"))
       ELSE Commit(c, [r EXCEPT !.pc = "verifyPasswordHash",
                                !.hash = users[r.user.id].passwordHash],
                   users, sessions, resetSessions, lm1, cookies)

\* the verdict on the strength, passwordUpdateBucket.consume and
\* getUserPasswordHash, up to the await of verifyPasswordHash
UpdatePasswordReadHash(c) ==
    LET r == reqs[c]
        b == ExpiringConsume(lim.passwordUpdateBucket, PasswordUpdateBucketMax,
                             PasswordUpdateBucketExpires, r.session.id, 1, now)
        lm1 == [lim EXCEPT !.passwordUpdateBucket = b.store]
    IN
    /\ r.kind = "updatePassword" /\ r.pc = "verifyPasswordStrength"
    /\ IF ~VerifyPasswordStrength(r.newPassword)
       THEN Only(c, Finish(r, "Weak password"))
       ELSE IF ~b.ok
       THEN Commit(c, Finish(r, "Too many requests"), users, sessions, resetSessions,
                   lm1, cookies)
       ELSE Commit(c, [r EXCEPT !.pc = "verifyPasswordHash",
                                !.hash = users[r.user.id].passwordHash],
                   users, sessions, resetSessions, lm1, cookies)

\* the verdict on the hash read before the await, passwordUpdateBucket.reset
\* and invalidateUserSessions, up to the await of hashPassword
UpdatePasswordInvalidate(c) ==
    LET r == reqs[c] IN
    /\ r.kind = "updatePassword" /\ r.pc = "verifyPasswordHash"
    /\ IF ~VerifyPasswordHash(r.hash, r.password)
       THEN Only(c, Finish(r, "Incorrect password"))
       ELSE Commit(c, [r EXCEPT !.pc = "hashPassword"], users,
                   InvalidateUserSessions(sessions, r.user.id), resetSessions,
                   [lim EXCEPT !.passwordUpdateBucket = ExpiringReset(@, r.session.id)],
                   cookies)

\* the UPDATE of updateUserPassword, after its await of hashPassword
UpdatePasswordWrite(c) ==
    LET r == reqs[c] IN
    /\ r.kind = "updatePassword" /\ r.pc = "hashPassword"
    /\ Commit(c, [r EXCEPT !.pc = "createSession"],
              UpdateUserPassword(users, r.user.id, HashPassword(r.newPassword, Fresh(r.rid))),
              sessions, resetSessions, lim, cookies)

\* createSession with the flag of the session the request was made with
UpdatePasswordCreateSession(c) ==
    LET r == reqs[c]
        token == GenerateSessionToken(r.rid)
    IN
    /\ r.kind = "updatePassword" /\ r.pc = "createSession"
    /\ Commit(c, [Finish(r, "Updated password") EXCEPT !.issued = token], users,
              CreateSession(sessions, token, r.user.id,
                            [twoFactorVerified |-> r.session.twoFactorVerified], now),
              resetSessions, lim, [cookies EXCEPT ![c].session = token])

----------------------------------------------------------------------------
(* resetPasswordAction *)

\* up to the await of verifyPasswordStrength
ResetPasswordStart(c, newPassword) ==
    LET r == [NewReq(c, "resetPassword") EXCEPT !.newPassword = newPassword]
        g == GlobalPOSTRateLimit(lim.globalBucket, r.ip, now)
        lm1 == [lim EXCEPT !.globalBucket = g.store]
        v == IF cookies[c].reset = 0
             THEN [session |-> NullResetSession, user |-> NullUser,
                   resetSessions |-> resetSessions]
             ELSE ValidatePasswordResetSessionToken(resetSessions, users,
                                                    cookies[c].reset, now)
    IN
    /\ CanStart(c)
    /\ IF ~g.ok
       THEN Commit(c, Finish(r, "Too many requests"), users, sessions, resetSessions, lm1, cookies)
       ELSE IF ~v.session.present
       THEN Commit(c, Finish(r, "Not authenticated"), users, sessions, v.resetSessions,
                   lm1, [cookies EXCEPT ![c].reset = 0])
       ELSE IF ~v.session.emailVerified
       THEN Commit(c, Finish(r, "Forbidden"), users, sessions, v.resetSessions, lm1, cookies)
       ELSE IF v.user.registered2FA /\ ~v.session.twoFactorVerified
       THEN Commit(c, Finish(r, "Forbidden"), users, sessions, v.resetSessions, lm1, cookies)
       ELSE Commit(c, [r EXCEPT !.pc = "verifyPasswordStrength", !.rsession = v.session,
                                !.user = v.user],
                   users, sessions, v.resetSessions, lm1, cookies)

\* the verdict on the strength and invalidateUserPasswordResetSessions
ResetPasswordInvalidateResets(c) ==
    LET r == reqs[c] IN
    /\ r.kind = "resetPassword" /\ r.pc = "verifyPasswordStrength"
    /\ IF ~VerifyPasswordStrength(r.newPassword)
       THEN Only(c, Finish(r, "Weak password"))
       ELSE Commit(c, [r EXCEPT !.pc = "invalidateUserSessions"], users, sessions,
                   InvalidateUserPasswordResetSessions(resetSessions, r.rsession.userId),
                   lim, cookies)

\* invalidateUserSessions, up to the await of hashPassword
ResetPasswordInvalidate(c) ==
    LET r == reqs[c] IN
    /\ r.kind = "resetPassword" /\ r.pc = "invalidateUserSessions"
    /\ Commit(c, [r EXCEPT !.pc = "hashPassword"], users,
              InvalidateUserSessions(sessions, r.rsession.userId), resetSessions,
              lim, cookies)

\* the UPDATE of updateUserPassword, after its await of hashPassword
ResetPasswordWrite(c) ==
    LET r == reqs[c] IN
    /\ r.kind = "resetPassword" /\ r.pc = "hashPassword"
    /\ Commit(c, [r EXCEPT !.pc = "createSession"],
              UpdateUserPassword(users, r.rsession.userId,
                                 HashPassword(r.newPassword, Fresh(r.rid))),
              sessions, resetSessions, lim, cookies)

\* createSession with the flag of the password-reset session, and the cookies
ResetPasswordCreateSession(c) ==
    LET r == reqs[c]
        token == GenerateSessionToken(r.rid)
    IN
    /\ r.kind = "resetPassword" /\ r.pc = "createSession"
    /\ Commit(c, [Finish(r, "redirect") EXCEPT !.issued = token], users,
              CreateSession(sessions, token, r.user.id,
                            [twoFactorVerified |-> r.rsession.twoFactorVerified], now),
              resetSessions, lim,
              [cookies EXCEPT ![c].session = token, ![c].reset = 0])

----------------------------------------------------------------------------
(* The requests the clients send *)

LoginInputs == {<<"a@x", "p0">>, <<"a@x", "p1">>, <<"nobody@x", "p0">>}
TOTPInputs == {"key1", "bad"}
RecoveryInputs == {1, 9}
UpdatePasswordInputs == {<<"p0", "p1">>, <<"p1", "p2">>, <<"p0", "weak">>}
ResetPasswordInputs == {"p2", "weak"}

Next ==
    \/ AdvanceClock
    \/ \E c \in Clients, i \in LoginInputs : LoginStart(c, i[1], i[2])
    \/ \E c \in Clients : LoginCreateSession(c)
    \/ \E c \in Clients : LogoutStart(c)
    \/ \E c \in Clients : LogoutInvalidate(c)
    \/ \E c \in Clients, code \in TOTPInputs : Verify2FAStart(c, code)
    \/ \E c \in Clients : Verify2FASet(c)
    \/ \E c \in Clients : RegenerateStart(c)
    \/ \E c \in Clients : RegenerateWrite(c)
    \/ \E c \in Clients, code \in RecoveryInputs : Reset2FAStart(c, code)
    \/ \E c \in Clients : Reset2FAClear(c)
    \/ \E c \in Clients : Reset2FARotate(c)
    \/ \E c \in Clients, i \in UpdatePasswordInputs : UpdatePasswordStart(c, i[1], i[2])
    \/ \E c \in Clients : UpdatePasswordReadHash(c)
    \/ \E c \in Clients : UpdatePasswordInvalidate(c)
    \/ \E c \in Clients : UpdatePasswordWrite(c)
    \/ \E c \in Clients : UpdatePasswordCreateSession(c)
    \/ \E c \in Clients, newPassword \in ResetPasswordInputs :
            ResetPasswordStart(c, newPassword)
    \/ \E c \in Clients : ResetPasswordInvalidateResets(c)
    \/ \E c \in Clients : ResetPasswordInvalidate(c)
    \/ \E c \in Clients : ResetPasswordWrite(c)
    \/ \E c \in Clients : ResetPasswordCreateSession(c)

Spec == Init /\ [][Next]_vars

----------------------------------------------------------------------------
(* The last step of a password reset, alone: both clients hold the cookie of
   one password-reset session, which has passed some of its checkpoints, and a
   client may present it while the other does. *)

\* the password-reset session at the start: its user and its checkpoints
ResetScenarios ==
    {[userId |-> 1, emailVerified |-> TRUE, twoFactorVerified |-> TRUE],
     [userId |-> 1, emailVerified |-> TRUE, twoFactorVerified |-> FALSE],
     [userId |-> 1, emailVerified |-> FALSE, twoFactorVerified |-> FALSE],
     [userId |-> 2, emailVerified |-> TRUE, twoFactorVerified |-> FALSE],
     [userId |-> 2, emailVerified |-> FALSE, twoFactorVerified |-> FALSE]}

\* Client c1 is also logged in as user 1, with the 2FA step done.
InitReset ==
    /\ now = 0
    /\ cfg = [class |-> "none", max |-> 0, expiresInSeconds |-> 0,
              refillIntervalSeconds |-> 0]
    /\ eStore = EmptyMap
    /\ rStore = EmptyMap
    /\ eWin = EmptyMap
    /\ last = [op |-> "none", key |-> "k1", cost |-> 0, ok |-> TRUE, at |-> 0]
    /\ ops = 0
    /\ users = InitUsers
    /\ sessions = [x \in {SessionIdOf(1), SessionIdOf(2), SessionIdOf(InitToken("c1"))}
                   |-> IF x = SessionIdOf(2) THEN InitSessionRow("user2", 0)
                       ELSE InitSessionRow("verified", 0)]
    /\ \E sc \in ResetScenarios :
          resetSessions = SessionIdOf(InitResetToken) :>
              [userId |-> sc.userId, expiresAt |-> 60 * 10,
               emailVerified |-> sc.emailVerified,
               twoFactorVerified |-> sc.twoFactorVerified]
    /\ cookies = [c \in Clients |->
                    [session |-> IF c = "c1" THEN InitToken(c) ELSE 0,
                     reset |-> InitResetToken, email |-> 0]]
    /\ lim = [n \in LimiterNames |-> EmptyMap]
    /\ reqs = [c \in Clients |-> NoReq]
    /\ nextId = 0
    /\ emailRequests = EmptyMap
    /\ sent = {}
    /\ wrongCodes = <<>>
    /\ budget = MaxReqs

NextReset ==
    \/ AdvanceClock
    \/ \E c \in Clients, i \in LoginInputs : LoginStart(c, i[1], i[2])
    \/ \E c \in Clients : LoginCreateSession(c)
    \/ \E c \in Clients, newPassword \in ResetPasswordInputs :
            ResetPasswordStart(c, newPassword)
    \/ \E c \in Clients : ResetPasswordInvalidateResets(c)
    \/ \E c \in Clients : ResetPasswordInvalidate(c)
    \/ \E c \in Clients : ResetPasswordWrite(c)
    \/ \E c \in Clients : ResetPasswordCreateSession(c)

SpecReset == InitReset /\ [][NextReset]_vars

----------------------------------------------------------------------------
(* verify2FAAction under its limiter, alone: the clients submit TOTP codes
   for user 1, and time passes TotpBucketExpires seconds at a time. *)

MaxTotpReqs == 7        \* submissions per behaviour
MaxTotpJumps == 1       \* clock jumps of TotpBucketExpires seconds per behaviour

InitTotp ==
    /\ now = 0
    /\ cfg = [class |-> "none", max |-> 0, expiresInSeconds |-> 0,
              refillIntervalSeconds |-> 0]
    /\ eStore = EmptyMap
    /\ rStore = EmptyMap
    /\ eWin = EmptyMap
    /\ last = [op |-> "none", key |-> "k1", cost |-> 0, ok |-> TRUE, at |-> 0]
    /\ ops = 0
    /\ users = InitUsers
    /\ sessions = [x \in {SessionIdOf(InitToken(c)) : c \in Clients}
                   |-> InitSessionRow("pending", 0)]
    /\ resetSessions = EmptyMap
    /\ cookies = [c \in Clients |-> [session |-> InitToken(c), reset |-> 0, email |-> 0]]
    /\ lim = [n \in LimiterNames |-> EmptyMap]
    /\ reqs = [c \in Clients |-> NoReq]
    /\ nextId = 0
    /\ emailRequests = EmptyMap
    /\ sent = {}
    /\ wrongCodes = <<>>
    /\ budget = MaxTotpReqs

TotpClock ==
    /\ \A c \in Clients : ~Running(c)
    /\ now + TotpBucketExpires <= MaxTotpJumps * TotpBucketExpires
    /\ now' = now + TotpBucketExpires
    /\ UNCHANGED bucketVars
    /\ UNCHANGED authVars

NextTotp ==
    \/ TotpClock
    \/ \E c \in Clients, code \in TOTPInputs : Verify2FAStart(c, code)
    \/ \E c \in Clients : Verify2FASet(c)

SpecTotp == InitTotp /\ [][NextTotp]_vars

----------------------------------------------------------------------------
(* Email verification: verifyEmailAction, resendEmailVerificationCodeAction
   and updateEmailAction.  createEmailVerificationRequest is two statements,
   a DELETE and an INSERT, and the three handlers share them. *)

ExpiredCodeMessage == "The verification code was expired. We sent another code to your inbox."
ResentCodeMessage == "A new code was sent to your inbox."

\* getUserEmailVerificationRequestFromRequest: the request the cookie names,
\* and the cookies after it (a cookie naming no request of the user is deleted)
GetUserEmailVerificationRequestFromRequest(c, userId) ==
    LET id == cookies[c].email
        request == IF id = 0 THEN NullEmailRequest
                   ELSE GetUserEmailVerificationRequest(emailRequests, userId, id)
    IN [request |-> request,
        cookies |-> IF id # 0 /\ ~request.present
                    THEN [cookies EXCEPT ![c].email = 0] ELSE cookies]

VerifyEmailStart(c, code) ==
    LET r == [NewReq(c, "verifyEmail") EXCEPT !.code = code]
        g == GlobalPOSTRateLimit(lim.globalBucket, r.ip, now)
        lm1 == [lim EXCEPT !.globalBucket = g.store]
        v == ValidateSessionToken(sessions, users, cookies[c].session, now)
        q == GetUserEmailVerificationRequestFromRequest(c, v.user.id)
        b == ExpiringConsume(lm1.verifyEmailBucket, VerifyEmailBucketMax,
                             VerifyEmailBucketExpires, v.user.id, 1, now)
        lm2 == [lm1 EXCEPT !.verifyEmailBucket = b.store]
        r1 == [r EXCEPT !.session = v.session, !.user = v.user, !.vreq = q.request,
                        !.email = q.request.email]
    IN
    /\ CanStart(c)
    /\ IF ~g.ok
       THEN Commit(c, Finish(r, "Too many requests"), users, sessions, resetSessions, lm1, cookies)
       ELSE IF ~v.session.present
       THEN Commit(c, Finish(r, "Not authenticated"), users, v.sessions, resetSessions,
                   lm1, cookies)
       ELSE IF v.user.registered2FA /\ ~v.session.twoFactorVerified
       THEN Commit(c, Finish(r, "Forbidden"), users, v.sessions, resetSessions, lm1, cookies)
       ELSE IF ~ExpiringCheck(lm1.verifyEmailBucket, VerifyEmailBucketMax,
                              VerifyEmailBucketExpires, v.user.id, 1, now)
       THEN Commit(c, Finish(r, "Too many requests"), users, v.sessions, resetSessions,
                   lm1, cookies)
       ELSE IF ~q.request.present
       THEN Commit(c, Finish([r EXCEPT !.session = v.session, !.user = v.user],
                             "Not authenticated"),
                   users, v.sessions, resetSessions, lm1, q.cookies)
       ELSE IF ~b.ok
       THEN Commit(c, Finish(r, "Too many requests"), users, v.sessions, resetSessions,
                   lm2, cookies)
       ELSE IF now >= q.request.expiresAt
       THEN Commit(c, [r1 EXCEPT !.pc = "deleteUserEmailVerificationRequest"],
                   users, v.sessions, resetSessions, lm2, cookies)
       ELSE IF q.request.code # code
       THEN Commit(c, Finish(r1, "Incorrect code."), users, v.sessions, resetSessions,
                   lm2, cookies)
       ELSE Commit(c, [r1 EXCEPT !.pc = "deleteVerifiedRequest"],
                   users, v.sessions, resetSessions, lm2, cookies)

\* deleteUserEmailVerificationRequest(user.id) of the success path
VerifyEmailDelete(c) ==
    LET r == reqs[c] IN
    /\ r.kind = "verifyEmail" /\ r.pc = "deleteVerifiedRequest"
    /\ CommitEmail(c, [r EXCEPT !.pc = "invalidateUserPasswordResetSessions"],
                   users, sessions, resetSessions, lim, cookies,
                   DeleteUserEmailVerificationRequest(emailRequests, r.user.id), sent)

VerifyEmailInvalidateResets(c) ==
    LET r == reqs[c] IN
    /\ r.kind = "verifyEmail" /\ r.pc = "invalidateUserPasswordResetSessions"
    /\ Commit(c, [r EXCEPT !.pc = "updateUserEmailAndSetEmailAsVerified"],
              users, sessions, InvalidateUserPasswordResetSessions(resetSessions, r.user.id),
              lim, cookies)

\* the UPDATE of the user row, the deletion of the cookie and the redirect; the
\* UPDATE throws when another row holds the address (user.email is UNIQUE)
VerifyEmailUpdateUser(c) ==
    LET r == reqs[c] IN
    /\ r.kind = "verifyEmail" /\ r.pc = "updateUserEmailAndSetEmailAsVerified"
    /\ IF \E u \in DOMAIN users : u # r.user.id /\ users[u].email = r.vreq.email
       THEN Only(c, Finish(r, "error"))
       ELSE Commit(c, Finish(r, "redirect"),
                   UpdateUserEmailAndSetEmailAsVerified(users, r.user.id, r.vreq.email),
                   sessions, resetSessions, lim, [cookies EXCEPT ![c].email = 0])

ResendStart(c) ==
    LET r == NewReq(c, "resendEmail")
        v == ValidateSessionToken(sessions, users, cookies[c].session, now)
        q == GetUserEmailVerificationRequestFromRequest(c, v.user.id)
        b == ExpiringConsume(lim.sendVerificationEmailBucket, SendVerificationEmailBucketMax,
                             SendVerificationEmailBucketExpires, v.user.id, 1, now)
        lm2 == [lim EXCEPT !.sendVerificationEmailBucket = b.store]
        r1 == [r EXCEPT !.session = v.session, !.user = v.user, !.vreq = q.request,
                        !.email = IF q.request.present THEN q.request.email ELSE v.user.email]
    IN
    /\ CanStart(c)
    /\ IF ~v.session.present
       THEN Commit(c, Finish(r, "Not authenticated"), users, v.sessions, resetSessions,
                   lim, cookies)
       ELSE IF v.user.registered2FA /\ ~v.session.twoFactorVerified
       THEN Commit(c, Finish(r, "Forbidden"), users, v.sessions, resetSessions, lim, cookies)
       ELSE IF ~ExpiringCheck(lim.sendVerificationEmailBucket, SendVerificationEmailBucketMax,
                              SendVerificationEmailBucketExpires, v.user.id, 1, now)
       THEN Commit(c, Finish(r, "Too many requests"), users, v.sessions, resetSessions,
                   lim, cookies)
       ELSE IF ~q.request.present /\ v.user.emailVerified
       THEN Commit(c, Finish(r, "Forbidden"), users, v.sessions, resetSessions, lim, q.cookies)
       ELSE IF ~b.ok
       THEN Commit(c, Finish(r, "Too many requests"), users, v.sessions, resetSessions,
                   lm2, q.cookies)
       ELSE Commit(c, [r1 EXCEPT !.pc = "deleteUserEmailVerificationRequest"],
                   users, v.sessions, resetSessions, lm2, q.cookies)

UpdateEmailStart(c, email) ==
    LET r == [NewReq(c, "updateEmail") EXCEPT !.email = email]
        g == GlobalPOSTRateLimit(lim.globalBucket, r.ip, now)
        lm1 == [lim EXCEPT !.globalBucket = g.store]
        v == ValidateSessionToken(sessions, users, cookies[c].session, now)
        b == ExpiringConsume(lm1.sendVerificationEmailBucket, SendVerificationEmailBucketMax,
                             SendVerificationEmailBucketExpires, v.user.id, 1, now)
        lm2 == [lm1 EXCEPT !.sendVerificationEmailBucket = b.store]
    IN
    /\ CanStart(c)
    /\ IF ~g.ok
       THEN Commit(c, Finish(r, "Too many requests"), users, sessions, resetSessions, lm1, cookies)
       ELSE IF ~v.session.present
       THEN Commit(c, Finish(r, "Not authenticated"), users, v.sessions, resetSessions,
                   lm1, cookies)
       ELSE IF v.user.registered2FA /\ ~v.session.twoFactorVerified
       THEN Commit(c, Finish(r, "Forbidden"), users, v.sessions, resetSessions, lm1, cookies)
       ELSE IF ~ExpiringCheck(lm1.sendVerificationEmailBucket, SendVerificationEmailBucketMax,
                              SendVerificationEmailBucketExpires, v.user.id, 1, now)
       THEN Commit(c, Finish(r, "Too many requests"), users, v.sessions, resetSessions,
                   lm1, cookies)
       ELSE IF ~VerifyEmailInput(email)
       THEN Commit(c, Finish(r, "Please enter a valid email"), users, v.sessions,
                   resetSessions, lm1, cookies)
       ELSE IF ~CheckEmailAvailability(users, email)
       THEN Commit(c, Finish(r, "This email is already used"), users, v.sessions,
                   resetSessions, lm1, cookies)
       ELSE IF ~b.ok
       THEN Commit(c, Finish(r, "Too many requests"), users, v.sessions, resetSessions,
                   lm2, cookies)
       ELSE Commit(c, [r EXCEPT !.pc = "deleteUserEmailVerificationRequest",
                                !.session = v.session, !.user = v.user],
                   users, v.sessions, resetSessions, lm2, cookies)

\* createEmailVerificationRequest, first statement: the DELETE of the requests
\* of the user
CreateRequestDelete(c) ==
    LET r == reqs[c] IN
    /\ r.kind \in {"verifyEmail", "resendEmail", "updateEmail"}
    /\ r.pc = "deleteUserEmailVerificationRequest"
    /\ CommitEmail(c, [r EXCEPT !.pc = "insertEmailVerificationRequest"],
                   users, sessions, resetSessions, lim, cookies,
                   DeleteUserEmailVerificationRequest(emailRequests, r.user.id), sent)

\* createEmailVerificationRequest, second statement: the INSERT; then the code
\* is sent, and all but the reissue of verifyEmailAction set the cookie
CreateRequestInsert(c) ==
    LET r == reqs[c]
        id == Fresh(r.rid)
        code == GenerateRandomOTP(r.rid)
        er == InsertEmailVerificationRequest(emailRequests, id, r.user.id, code, r.email, now)
        sn == sent \cup {[to |-> r.email, code |-> code]}
        r1 == [r EXCEPT !.issued = id]
    IN
    /\ r.kind \in {"verifyEmail", "resendEmail", "updateEmail"}
    /\ r.pc = "insertEmailVerificationRequest"
    /\ IF r.kind = "verifyEmail"
       THEN CommitEmail(c, Finish(r1, ExpiredCodeMessage), users, sessions, resetSessions,
                        lim, cookies, er, sn)
       ELSE CommitEmail(c, Finish(r1, IF r.kind = "resendEmail" THEN ResentCodeMessage
                                      ELSE "redirect"),
                        users, sessions, resetSessions, lim,
                        [cookies EXCEPT ![c].email = id], er, sn)

----------------------------------------------------------------------------
(* The specification of email verification.  Both clients are devices of user
   2, which has no second factor; in the third scenario client c2 is a device
   of user 1 instead. *)

MaxEmailReqs == 2       \* requests per behaviour
MaxEmailJumps == 1      \* clock jumps of EmailRequestLifetime seconds per behaviour

InitEmailRequestId == 31
NewEmails == {"n@x", "a@x"}
EmailScenarios == {"signup", "change", "settled"}

InitEmail ==
    /\ now = 0
    /\ cfg = [class |-> "none", max |-> 0, expiresInSeconds |-> 0,
              refillIntervalSeconds |-> 0]
    /\ eStore = EmptyMap
    /\ rStore = EmptyMap
    /\ eWin = EmptyMap
    /\ last = [op |-> "none", key |-> "k1", cost |-> 0, ok |-> TRUE, at |-> 0]
    /\ ops = 0
    /\ \E sc \in EmailScenarios :
        LET pending == IF sc = "signup" THEN "b@x" ELSE "n@x" IN
        /\ users = IF sc = "settled" THEN InitUsers
                   ELSE [InitUsers EXCEPT ![2].emailVerified = FALSE]
        /\ sessions = [x \in {SessionIdOf(InitToken(c)) : c \in Clients}
                       |-> IF x = SessionIdOf(InitToken("c2")) /\ sc = "settled"
                           THEN InitSessionRow("verified", 0)
                           ELSE InitSessionRow("user2", 0)]
        /\ emailRequests =
             IF sc = "settled" THEN EmptyMap
             ELSE InitEmailRequestId :>
                    [userId |-> 2, code |-> InitEmailRequestId, email |-> pending,
                     expiresAt |-> EmailRequestLifetime]
        /\ sent = IF sc = "settled" THEN {}
                  ELSE {[to |-> pending, code |-> InitEmailRequestId]}
        /\ cookies = [c \in Clients |->
                        [session |-> InitToken(c), reset |-> 0,
                         email |-> IF c = "c1" /\ sc # "settled"
                                   THEN InitEmailRequestId ELSE 0]]
    /\ resetSessions = EmptyMap
    /\ lim = [n \in LimiterNames |-> EmptyMap]
    /\ reqs = [c \in Clients |-> NoReq]
    /\ nextId = 0
    /\ wrongCodes = <<>>
    /\ budget = MaxEmailReqs

\* Time passes between requests, EmailRequestLifetime seconds at a time.
EmailClock ==
    /\ \A c \in Clients : ~Running(c)
    /\ now + EmailRequestLifetime <= MaxEmailJumps * EmailRequestLifetime
    /\ now' = now + EmailRequestLifetime
    /\ UNCHANGED bucketVars
    /\ UNCHANGED authVars

\* the codes a client can type: one it was sent, or a wrong one
CodeInputs == {s.code : s \in sent} \cup {0}

NextEmail ==
    \/ EmailClock
    \/ \E c \in Clients, code \in CodeInputs : VerifyEmailStart(c, code)
    \/ \E c \in Clients : VerifyEmailDelete(c)
    \/ \E c \in Clients : VerifyEmailInvalidateResets(c)
    \/ \E c \in Clients : VerifyEmailUpdateUser(c)
    \/ \E c \in Clients : ResendStart(c)
    \/ \E c \in Clients, email \in NewEmails : UpdateEmailStart(c, email)
    \/ \E c \in Clients : CreateRequestDelete(c)
    \/ \E c \in Clients : CreateRequestInsert(c)

SpecEmail == InitEmail /\ [][NextEmail]_vars

----------------------------------------------------------------------------
(* Session validation over time: getCurrentSession, the first piece of every
   page and action.  Both clients hold a session created at time 0, and time
   passes SessionStep seconds at a time. *)

SessionStep == 60 * 60 * 24 * 5
MaxSessionSteps == 9    \* clock steps of SessionStep seconds per behaviour
MaxSessionReqs == 4     \* validations per behaviour

\* getCurrentSession(): the cookie's token is validated; the request notes the
\* time and the result
GetCurrentSession(c) ==
    LET r == [NewReq(c, "getCurrentSession") EXCEPT !.at = now]
        v == IF cookies[c].session = 0
             THEN [session |-> NullSession, user |-> NullUser, sessions |-> sessions]
             ELSE ValidateSessionToken(sessions, users, cookies[c].session, now)
    IN
    /\ CanStart(c)
    /\ Commit(c, Finish([r EXCEPT !.session = v.session, !.user = v.user],
                        IF v.session.present THEN "session" ELSE "null"),
              users, v.sessions, resetSessions, lim, cookies)

InitSession ==
    /\ now = 0
    /\ cfg = [class |-> "none", max |-> 0, expiresInSeconds |-> 0,
              refillIntervalSeconds |-> 0]
    /\ eStore = EmptyMap
    /\ rStore = EmptyMap
    /\ eWin = EmptyMap
    /\ last = [op |-> "none", key |-> "k1", cost |-> 0, ok |-> TRUE, at |-> 0]
    /\ ops = 0
    /\ users = InitUsers
    /\ sessions = CreateSession(CreateSession(EmptyMap, InitToken("c1"), 1,
                                              [twoFactorVerified |-> TRUE], 0),
                                InitToken("c2"), 2, [twoFactorVerified |-> FALSE], 0)
    /\ resetSessions = EmptyMap
    /\ cookies = [c \in Clients |-> [session |-> InitToken(c), reset |-> 0, email |-> 0]]
    /\ lim = [n \in LimiterNames |-> EmptyMap]
    /\ reqs = [c \in Clients |-> NoReq]
    /\ nextId = 0
    /\ emailRequests = EmptyMap
    /\ sent = {}
    /\ wrongCodes = <<>>
    /\ budget = MaxSessionReqs

SessionClock ==
    /\ now + SessionStep <= MaxSessionSteps * SessionStep
    /\ now' = now + SessionStep
    /\ UNCHANGED bucketVars
    /\ UNCHANGED authVars

NextSession ==
    \/ SessionClock
    \/ \E c \in Clients : GetCurrentSession(c)

SpecSession == InitSession /\ [][NextSession]_vars

----------------------------------------------------------------------------
(* The home page (app/page.tsx) and the specification of logging in: the
   clients start logged out, log in, answer the 2FA challenge and load the
   home page, and time passes one second at a time, the unit of the login
   throttler. *)

\* a home page that does not ask for the 2FA challenge
HomePageWithoutChallenge(c) ==
    LET r == NewReq(c, "homePage")
        g == GlobalGETRateLimit(lim.globalBucket, r.ip, now)
        lm1 == [lim EXCEPT !.globalBucket = g.store]
        v == IF cookies[c].session = 0
             THEN [session |-> NullSession, user |-> NullUser, sessions |-> sessions]
             ELSE ValidateSessionToken(sessions, users, cookies[c].session, now)
        r1 == [r EXCEPT !.session = v.session, !.user = v.user]
    IN
    /\ CanStart(c)
    /\ IF ~g.ok
       THEN Commit(c, Finish(r, "Too many requests"), users, sessions, resetSessions, lm1, cookies)
       ELSE Commit(c, Finish(r1, IF ~v.session.present THEN "/login"
                                 ELSE IF ~v.user.emailVerified THEN "/verify-email"
                                 ELSE IF ~v.user.registered2FA THEN "/2fa/setup"
                                 ELSE "content"),
                   users, v.sessions, resetSessions, lm1, cookies)

HomePage(c) ==
    LET r == NewReq(c, "homePage")
        g == GlobalGETRateLimit(lim.globalBucket, r.ip, now)
        lm1 == [lim EXCEPT !.globalBucket = g.store]
        v == IF cookies[c].session = 0
             THEN [session |-> NullSession, user |-> NullUser, sessions |-> sessions]
             ELSE ValidateSessionToken(sessions, users, cookies[c].session, now)
        r1 == [r EXCEPT !.session = v.session, !.user = v.user]
    IN
    /\ CanStart(c)
    /\ IF ~g.ok
       THEN Commit(c, Finish(r, "Too many requests"), users, sessions, resetSessions, lm1, cookies)
       ELSE Commit(c, Finish(r1, IF ~v.session.present THEN "/login"
                                 ELSE IF ~v.user.emailVerified THEN "/verify-email"
                                 ELSE IF ~v.user.registered2FA THEN "/2fa/setup"
                                 ELSE IF ~v.session.twoFactorVerified THEN "/2fa"
                                 ELSE "content"),
                   users, v.sessions, resetSessions, lm1, cookies)

MaxLoginReqs == 3       \* requests per behaviour
MaxLoginTicks == 1      \* seconds per behaviour

LoginPageInputs == LoginInputs \cup {<<"b@x", "p0">>}

\* everyone is logged out; user 2 has verified its email or has not; the
\* clients send the given number of requests
InitLoggedOut(requests) ==
    /\ now = 0
    /\ cfg = [class |-> "none", max |-> 0, expiresInSeconds |-> 0,
              refillIntervalSeconds |-> 0]
    /\ eStore = EmptyMap
    /\ rStore = EmptyMap
    /\ eWin = EmptyMap
    /\ last = [op |-> "none", key |-> "k1", cost |-> 0, ok |-> TRUE, at |-> 0]
    /\ ops = 0
    /\ \E verified \in BOOLEAN : users = [InitUsers EXCEPT ![2].emailVerified = verified]
    /\ sessions = EmptyMap
    /\ resetSessions = EmptyMap
    /\ cookies = [c \in Clients |-> [session |-> 0, reset |-> 0, email |-> 0]]
    /\ lim = [n \in LimiterNames |-> EmptyMap]
    /\ reqs = [c \in Clients |-> NoReq]
    /\ nextId = 0
    /\ emailRequests = EmptyMap
    /\ sent = {}
    /\ wrongCodes = <<>>
    /\ budget = requests

InitLogin == InitLoggedOut(MaxLoginReqs)

LoginClock ==
    /\ \A c \in Clients : ~Running(c)
    /\ now + 1 <= MaxLoginTicks
    /\ now' = now + 1
    /\ UNCHANGED bucketVars
    /\ UNCHANGED authVars

NextLogin ==
    \/ LoginClock
    \/ \E c \in Clients, in \in LoginPageInputs : LoginStart(c, in[1], in[2])
    \/ \E c \in Clients : LoginCreateSession(c)

SpecLogin == InitLogin /\ [][NextLogin]_vars

\* logging in, answering the challenge and loading the home page, with the
\* clock standing still
MaxPageReqs == 3        \* requests per behaviour

InitPage == InitLoggedOut(MaxPageReqs)

NextPage ==
    \/ \E c \in Clients, in \in LoginPageInputs : LoginStart(c, in[1], in[2])
    \/ \E c \in Clients : LoginCreateSession(c)
    \/ \E c \in Clients, code \in TOTPInputs : Verify2FAStart(c, code)
    \/ \E c \in Clients : Verify2FASet(c)
    \/ \E c \in Clients : HomePage(c)

SpecPage == InitPage /\ [][NextPage]_vars

----------------------------------------------------------------------------
(* setup2FAAction (app/2fa/setup/actions.ts) and its specification *)

\* keys that do not decode to 20 bytes
MalformedKeys == {"short"}

Setup2FAStart(c, key, code) ==
    LET r == [NewReq(c, "setup2FA") EXCEPT !.key = key, !.totp = code]
        g == GlobalPOSTRateLimit(lim.globalBucket, r.ip, now)
        lm1 == [lim EXCEPT !.globalBucket = g.store]
        v == ValidateSessionToken(sessions, users, cookies[c].session, now)
        b == RefillingConsume(lm1.totpUpdateBucket, TotpUpdateBucketMax,
                              TotpUpdateBucketRefill, v.user.id, 1, now)
        lm2 == [lm1 EXCEPT !.totpUpdateBucket = b.store]
    IN
    /\ CanStart(c)
    /\ IF ~g.ok
       THEN Commit(c, Finish(r, "Too many requests"), users, sessions, resetSessions, lm1, cookies)
       ELSE IF ~v.session.present
       THEN Commit(c, Finish(r, "Not authenticated"), users, v.sessions, resetSessions,
                   lm1, cookies)
       ELSE IF ~v.user.emailVerified
       THEN Commit(c, Finish(r, "Forbidden"), users, v.sessions, resetSessions, lm1, cookies)
       ELSE IF v.user.registered2FA /\ ~v.session.twoFactorVerified
       THEN Commit(c, Finish(r, "Forbidden"), users, v.sessions, resetSessions, lm1, cookies)
       ELSE IF ~RefillingCheck(lm1.totpUpdateBucket, TotpUpdateBucketMax,
                               TotpUpdateBucketRefill, v.user.id, 1, now)
       THEN Commit(c, Finish(r, "Too many requests"), users, v.sessions, resetSessions,
                   lm1, cookies)
       ELSE IF key \in MalformedKeys
       THEN Commit(c, Finish(r, "Invalid key"), users, v.sessions, resetSessions, lm1, cookies)
       ELSE IF ~b.ok
       THEN Commit(c, Finish(r, "Too many requests"), users, v.sessions, resetSessions,
                   lm2, cookies)
       ELSE IF ~VerifyTOTP(key, code)
       THEN Commit(c, Finish(r, "Invalid code"), users, v.sessions, resetSessions, lm2, cookies)
       ELSE Commit(c, [r EXCEPT !.pc = "updateUserTOTPKey", !.session = v.session,
                                !.user = v.user],
                   users, v.sessions, resetSessions, lm2, cookies)

Setup2FAWriteKey(c) ==
    LET r == reqs[c] IN
    /\ r.kind = "setup2FA" /\ r.pc = "updateUserTOTPKey"
    /\ Commit(c, [r EXCEPT !.pc = "setSessionAs2FAVerified"],
              UpdateUserTOTPKey(users, r.session.userId, r.key),
              sessions, resetSessions, lim, cookies)

Setup2FASetFlag(c) ==
    LET r == reqs[c] IN
    /\ r.kind = "setup2FA" /\ r.pc = "setSessionAs2FAVerified"
    /\ Commit(c, Finish(r, "redirect"), users,
              SetSessionAs2FAVerified(sessions, r.session.id), resetSessions, lim, cookies)

MaxSetupReqs == 3       \* requests per behaviour

SetupInputs == {<<"key2", "key2">>, <<"key3", "key3">>, <<"key2", "bad">>,
                <<"short", "short">>}
\* client c2 is a second device of user 2, or a device of user 1 that has or
\* has not answered the challenge; user 2 has verified its email or has not
SetupScenarios == {"user2", "verified", "pending", "unverifiedEmail"}

InitSetup ==
    /\ now = 0
    /\ cfg = [class |-> "none", max |-> 0, expiresInSeconds |-> 0,
              refillIntervalSeconds |-> 0]
    /\ eStore = EmptyMap
    /\ rStore = EmptyMap
    /\ eWin = EmptyMap
    /\ last = [op |-> "none", key |-> "k1", cost |-> 0, ok |-> TRUE, at |-> 0]
    /\ ops = 0
    /\ \E sc \in SetupScenarios :
        /\ users = [InitUsers EXCEPT ![2].emailVerified = sc # "unverifiedEmail"]
        /\ sessions = [x \in {SessionIdOf(1), SessionIdOf(2)}
                             \cup {SessionIdOf(InitToken(c)) : c \in Clients}
                       |-> IF x = SessionIdOf(1) THEN InitSessionRow("verified", 0)
                           ELSE IF x = SessionIdOf(InitToken("c2")) /\ sc \in {"verified", "pending"}
                           THEN InitSessionRow(sc, 0)
                           ELSE InitSessionRow("user2", 0)]
    /\ resetSessions = EmptyMap
    /\ cookies = [c \in Clients |-> [session |-> InitToken(c), reset |-> 0, email |-> 0]]
    /\ lim = [n \in LimiterNames |-> EmptyMap]
    /\ reqs = [c \in Clients |-> NoReq]
    /\ nextId = 0
    /\ emailRequests = EmptyMap
    /\ sent = {}
    /\ wrongCodes = <<>>
    /\ budget = MaxSetupReqs

NextSetup ==
    \/ \E c \in Clients, in \in SetupInputs : Setup2FAStart(c, in[1], in[2])
    \/ \E c \in Clients : Setup2FAWriteKey(c)
    \/ \E c \in Clients : Setup2FASetFlag(c)

SpecSetup == InitSetup /\ [][NextSetup]_vars

----------------------------------------------------------------------------
(* The specification of 2FA recovery: reset2FAAction and verify2FAAction.
   Client c2 holds a pending session of user 1; client c1 holds a verified or
   a pending session of user 1, or a session of user 2, which has no TOTP key
   and has or has not verified its email. *)

MaxRecoveryReqs == 3    \* requests per behaviour

RecoveryScenarios == {"verified", "pending", "user2", "unverifiedEmail"}

InitRecovery ==
    /\ now = 0
    /\ cfg = [class |-> "none", max |-> 0, expiresInSeconds |-> 0,
              refillIntervalSeconds |-> 0]
    /\ eStore = EmptyMap
    /\ rStore = EmptyMap
    /\ eWin = EmptyMap
    /\ last = [op |-> "none", key |-> "k1", cost |-> 0, ok |-> TRUE, at |-> 0]
    /\ ops = 0
    /\ \E sc \in RecoveryScenarios :
        /\ users = [InitUsers EXCEPT ![2].emailVerified = sc # "unverifiedEmail"]
        /\ sessions = [x \in {SessionIdOf(InitToken(c)) : c \in Clients}
                       |-> IF x = SessionIdOf(InitToken("c2")) THEN InitSessionRow("pending", 0)
                           ELSE IF sc \in {"verified", "pending"} THEN InitSessionRow(sc, 0)
                           ELSE InitSessionRow("user2", 0)]
    /\ resetSessions = EmptyMap
    /\ cookies = [c \in Clients |-> [session |-> InitToken(c), reset |-> 0, email |-> 0]]
    /\ lim = [n \in LimiterNames |-> EmptyMap]
    /\ reqs = [c \in Clients |-> NoReq]
    /\ nextId = 0
    /\ emailRequests = EmptyMap
    /\ sent = {}
    /\ wrongCodes = <<>>
    /\ budget = MaxRecoveryReqs

NextRecovery ==
    \/ \E c \in Clients, code \in RecoveryInputs : Reset2FAStart(c, code)
    \/ \E c \in Clients : Reset2FAClear(c)
    \/ \E c \in Clients : Reset2FARotate(c)
    \/ \E c \in Clients, code \in TOTPInputs : Verify2FAStart(c, code)
    \/ \E c \in Clients : Verify2FASet(c)

SpecRecovery == InitRecovery /\ [][NextRecovery]_vars

----------------------------------------------------------------------------
(* The specification of the global request gate.  Client c1 has spent its
   tokens of globalBucket but one within the current second (33 POST
   requests of POSTCost tokens out of GlobalBucketMax), client c2 sends no
   X-Forwarded-For.  Both hold a session of user 2, whose email awaits
   verification, or a pending session of user 1. *)

MaxGateReqs == 2        \* requests per behaviour

GateScenarios == {"email", "recovery"}

\* what is left of GlobalBucketMax tokens when the next POST no longer fits
DrainedCount == GlobalBucketMax % POSTCost

InitGate ==
    /\ now = 0
    /\ cfg = [class |-> "none", max |-> 0, expiresInSeconds |-> 0,
              refillIntervalSeconds |-> 0]
    /\ eStore = EmptyMap
    /\ rStore = EmptyMap
    /\ eWin = EmptyMap
    /\ last = [op |-> "none", key |-> "k1", cost |-> 0, ok |-> TRUE, at |-> 0]
    /\ ops = 0
    /\ \E sc \in GateScenarios :
        /\ users = IF sc = "email" THEN [InitUsers EXCEPT ![2].emailVerified = FALSE]
                   ELSE InitUsers
        /\ sessions = [x \in {SessionIdOf(InitToken(c)) : c \in Clients}
                       |-> InitSessionRow(IF sc = "email" THEN "user2" ELSE "pending", 0)]
        /\ emailRequests =
             IF sc = "email"
             THEN InitEmailRequestId :>
                    [userId |-> 2, code |-> InitEmailRequestId, email |-> "b@x",
                     expiresAt |-> EmailRequestLifetime]
             ELSE EmptyMap
        /\ sent = IF sc = "email" THEN {[to |-> "b@x", code |-> InitEmailRequestId]} ELSE {}
        /\ cookies = [c \in Clients |->
                        [session |-> InitToken(c), reset |-> 0,
                         email |-> IF sc = "email" THEN InitEmailRequestId ELSE 0]]
    /\ resetSessions = EmptyMap
    /\ lim = [n \in LimiterNames |->
                IF n = "globalBucket"
                THEN ClientIP("c1") :> [count |-> DrainedCount, refilledAt |-> 0]
                ELSE EmptyMap]
    /\ reqs = [c \in Clients |-> NoReq]
    /\ nextId = 0
    /\ wrongCodes = <<>>
    /\ budget = MaxGateReqs

NextGate ==
    \/ \E c \in Clients, code \in CodeInputs : VerifyEmailStart(c, code)
    \/ \E c \in Clients : VerifyEmailDelete(c)
    \/ \E c \in Clients : VerifyEmailInvalidateResets(c)
    \/ \E c \in Clients : VerifyEmailUpdateUser(c)
    \/ \E c \in Clients : ResendStart(c)
    \/ \E c \in Clients, email \in NewEmails : UpdateEmailStart(c, email)
    \/ \E c \in Clients : CreateRequestDelete(c)
    \/ \E c \in Clients : CreateRequestInsert(c)
    \/ \E c \in Clients, code \in RecoveryInputs : Reset2FAStart(c, code)
    \/ \E c \in Clients : Reset2FAClear(c)
    \/ \E c \in Clients : Reset2FARotate(c)
    \/ \E c \in Clients, code \in TOTPInputs : Verify2FAStart(c, code)
    \/ \E c \in Clients : Verify2FASet(c)
    \/ \E c \in Clients : LogoutStart(c)
    \/ \E c \in Clients : LogoutInvalidate(c)

SpecGate == InitGate /\ [][NextGate]_vars

----------------------------------------------------------------------------
(* The specification of the charge of a limiter by concurrent requests.  Two
   tabs of one browser send the same session cookie.  The session is a
   verified one of user 1 whose passwordUpdateBucket entry has one token left
   (four wrong passwords in the current window), or a pending one whose user
   has one token left in totpBucket (four wrong codes). *)

MaxChargeReqs == 3      \* requests per behaviour

ChargeScenarios == {"verified", "pending"}

InitCharge ==
    /\ now = 0
    /\ cfg = [class |-> "none", max |-> 0, expiresInSeconds |-> 0,
              refillIntervalSeconds |-> 0]
    /\ eStore = EmptyMap
    /\ rStore = EmptyMap
    /\ eWin = EmptyMap
    /\ last = [op |-> "none", key |-> "k1", cost |-> 0, ok |-> TRUE, at |-> 0]
    /\ ops = 0
    /\ users = InitUsers
    /\ resetSessions = EmptyMap
    /\ cookies = [c \in Clients |-> [session |-> InitToken("c1"), reset |-> 0, email |-> 0]]
    /\ \E sc \in ChargeScenarios :
        /\ sessions = SessionIdOf(InitToken("c1")) :> InitSessionRow(sc, 0)
        /\ lim = [n \in LimiterNames |->
                    IF sc = "verified" /\ n = "passwordUpdateBucket"
                    THEN SessionIdOf(InitToken("c1")) :> [count |-> 1, createdAt |-> 0]
                    ELSE IF sc = "pending" /\ n = "totpBucket"
                    THEN 1 :> [count |-> 1, createdAt |-> 0]
                    ELSE EmptyMap]
    /\ reqs = [c \in Clients |-> NoReq]
    /\ nextId = 0
    /\ emailRequests = EmptyMap
    /\ sent = {}
    /\ wrongCodes = <<>>
    /\ budget = MaxChargeReqs

NextCharge ==
    \/ \E c \in Clients, i \in UpdatePasswordInputs : UpdatePasswordStart(c, i[1], i[2])
    \/ \E c \in Clients : UpdatePasswordReadHash(c)
    \/ \E c \in Clients : UpdatePasswordInvalidate(c)
    \/ \E c \in Clients : UpdatePasswordWrite(c)
    \/ \E c \in Clients : UpdatePasswordCreateSession(c)
    \/ \E c \in Clients, code \in TOTPInputs : Verify2FAStart(c, code)
    \/ \E c \in Clients : Verify2FASet(c)

SpecCharge == InitCharge /\ [][NextCharge]_vars

----------------------------------------------------------------------------
(* forgotPasswordAction *)

PasswordResetEmailIPBucketMax == 3
PasswordResetEmailIPBucketRefill == 60
PasswordResetEmailUserBucketMax == 3
PasswordResetEmailUserBucketRefill == 60
PasswordResetSessionLifetime == 60 * 10

\* createPasswordResetSession: the INSERT of a row that has verified nothing
CreatePasswordResetSession(rs, token, userId, t) ==
    MapSet(rs, SessionIdOf(token),
           [userId |-> userId, expiresAt |-> t + PasswordResetSessionLifetime,
            emailVerified |-> FALSE, twoFactorVerified |-> FALSE])

\* up to the DELETE of invalidateUserPasswordResetSessions
ForgotPasswordStart(c, email) ==
    LET r == [NewReq(c, "forgotPassword") EXCEPT !.email = email]
        g == GlobalPOSTRateLimit(lim.globalBucket, r.ip, now)
        lm1 == [lim EXCEPT !.globalBucket = g.store]
        user == GetUserFromEmail(users, email)
        ip == IF r.ip = NoIP THEN [ok |-> TRUE, store |-> lm1.passwordResetEmailIPBucket]
              ELSE RefillingConsume(lm1.passwordResetEmailIPBucket,
                                    PasswordResetEmailIPBucketMax,
                                    PasswordResetEmailIPBucketRefill, r.ip, 1, now)
        lm2 == [lm1 EXCEPT !.passwordResetEmailIPBucket = ip.store]
        ub == RefillingConsume(lm2.passwordResetEmailUserBucket,
                               PasswordResetEmailUserBucketMax,
                               PasswordResetEmailUserBucketRefill, user.id, 1, now)
        lm3 == [lm2 EXCEPT !.passwordResetEmailUserBucket = ub.store]
    IN
    /\ CanStart(c)
    /\ IF ~g.ok
       THEN Commit(c, Finish(r, "Too many requests"), users, sessions, resetSessions, lm1, cookies)
       ELSE IF r.ip # NoIP /\ ~RefillingCheck(lm1.passwordResetEmailIPBucket,
                                               PasswordResetEmailIPBucketMax,
                                               PasswordResetEmailIPBucketRefill, r.ip, 1, now)
       THEN Commit(c, Finish(r, "Too many requests"), users, sessions, resetSessions, lm1, cookies)
       ELSE IF user = NullUser
       THEN Commit(c, Finish(r, "Account does not exist"), users, sessions, resetSessions,
                   lm1, cookies)
       ELSE IF ~ip.ok
       THEN Commit(c, Finish(r, "Too many requests"), users, sessions, resetSessions, lm2, cookies)
       ELSE IF ~ub.ok
       THEN Commit(c, Finish(r, "Too many requests"), users, sessions, resetSessions, lm3, cookies)
       ELSE Commit(c, [r EXCEPT !.pc = "createPasswordResetSession", !.user = user],
                   users, sessions, InvalidateUserPasswordResetSessions(resetSessions, user.id),
                   lm3, cookies)

\* the INSERT of createPasswordResetSession and the cookie; the email is
\* written to the console
ForgotPasswordCreate(c) ==
    LET r == reqs[c]
        token == GenerateSessionToken(r.rid)
    IN
    /\ r.kind = "forgotPassword" /\ r.pc = "createPasswordResetSession"
    /\ Commit(c, [Finish(r, "redirect") EXCEPT !.issued = token], users, sessions,
              CreatePasswordResetSession(resetSessions, token, r.user.id, now), lim,
              [cookies EXCEPT ![c].reset = token])

----------------------------------------------------------------------------
(* The specification of requests with and without a network address.  Both
   clients are logged out; c1 sends X-Forwarded-For, c2 does not.  They log
   in, ask for a password reset and load the home page. *)

MaxAddressReqs == 3     \* requests per behaviour

ForgotPasswordInputs == {"a@x", "nobody@x"}

InitAddress == InitLoggedOut(MaxAddressReqs)

NextAddress ==
    \/ \E c \in Clients, i \in LoginInputs : LoginStart(c, i[1], i[2])
    \/ \E c \in Clients : LoginCreateSession(c)
    \/ \E c \in Clients, email \in ForgotPasswordInputs : ForgotPasswordStart(c, email)
    \/ \E c \in Clients : ForgotPasswordCreate(c)
    \/ \E c \in Clients : HomePage(c)

SpecAddress == InitAddress /\ [][NextAddress]_vars

----------------------------------------------------------------------------
(* The refilling bucket on one key: the entries of the Map are independent of
   each other, so that the calls for one key are all that bears on it. *)

OneKey == "k1"

InitRefill == InitBucket /\ cfg.class = "refilling"

NextRefill ==
    \/ Tick
    \/ \E cost \in 1..MaxCost : BRefillingCheck(OneKey, cost)
    \/ \E cost \in 1..MaxCost : BRefillingConsume(OneKey, cost)

SpecRefill == InitRefill /\ [][NextRefill]_vars

(* The expiring bucket on one key. *)

InitWindow == InitBucket /\ cfg.class = "expiring"

NextWindow ==
    \/ Tick
    \/ \E cost \in 1..MaxCost : BExpiringCheck(OneKey, cost)
    \/ \E cost \in 1..MaxCost : BExpiringConsume(OneKey, cost)
    \/ BExpiringReset(OneKey)

SpecWindow == InitWindow /\ [][NextWindow]_vars

----------------------------------------------------------------------------
(* The Throttler on one key: the login throttler of the application and two
   short instances that reach the last level within the time explored.
   History in last: nth counts the consumes allowed since the one that created
   the entry, level is the level of the entry before the call (NoLevel when
   the key was absent), after is the call before this one. *)

MaxThrottleNow == 8     \* seconds of clock

NoLevel == -1

ThrottleConfigs == {LoginTimeouts, <<1, 2>>, <<2>>}

LevelOf(s, key) == IF MapHas(s, key) THEN s[key].timeout ELSE NoLevel

InitThrottle ==
    /\ now = 0
    /\ \E ts \in ThrottleConfigs :
          cfg = [class |-> "throttler", max |-> 0, expiresInSeconds |-> 0,
                 refillIntervalSeconds |-> 0, timeoutSeconds |-> ts]
    /\ eStore = EmptyMap
    /\ rStore = EmptyMap
    /\ eWin = EmptyMap
    /\ last = [op |-> "none", key |-> OneKey, cost |-> 0, ok |-> TRUE, at |-> 0,
               nth |-> 0, level |-> NoLevel,
               after |-> [op |-> "none", at |-> 0, level |-> NoLevel]]
    /\ ops = 0
    /\ users = EmptyMap
    /\ sessions = EmptyMap
    /\ resetSessions = EmptyMap
    /\ lim = [n \in LimiterNames |-> EmptyMap]
    /\ reqs = EmptyMap
    /\ cookies = EmptyMap
    /\ nextId = 0
    /\ emailRequests = EmptyMap
    /\ sent = {}
    /\ wrongCodes = <<>>
    /\ budget = 0

ThrottleTick ==
    /\ now < MaxThrottleNow
    /\ now' = now + 1
    /\ UNCHANGED bucketVars
    /\ UNCHANGED authVars

TConsume(key) ==
    LET r == ThrottlerConsume(lim.throttler, cfg.timeoutSeconds, key, now) IN
    /\ lim' = [lim EXCEPT !.throttler = r.store]
    /\ last' = [op |-> "tConsume", key |-> key, cost |-> 0, ok |-> r.ok, at |-> now,
                nth |-> IF ~MapHas(lim.throttler, key) THEN 0
                        ELSE IF r.ok THEN last.nth + 1 ELSE last.nth,
                level |-> LevelOf(lim.throttler, key),
                after |-> [op |-> last.op, at |-> last.at, level |-> last.level]]
    /\ UNCHANGED <<now, cfg, eStore, rStore, eWin, ops>>
    /\ UNCHANGED <<users, sessions, resetSessions, reqs, cookies, nextId,
                   emailRequests, sent, wrongCodes, budget>>

TReset(key) ==
    /\ lim' = [lim EXCEPT !.throttler = ThrottlerReset(@, key)]
    /\ last' = [op |-> "tReset", key |-> key, cost |-> 0, ok |-> TRUE, at |-> now,
                nth |-> 0, level |-> LevelOf(lim.throttler, key),
                after |-> [op |-> last.op, at |-> last.at, level |-> last.level]]
    /\ UNCHANGED <<now, cfg, eStore, rStore, eWin, ops>>
    /\ UNCHANGED <<users, sessions, resetSessions, reqs, cookies, nextId,
                   emailRequests, sent, wrongCodes, budget>>

NextThrottle ==
    \/ ThrottleTick
    \/ TConsume(OneKey)
    \/ TReset(OneKey)

SpecThrottle == InitThrottle /\ [][NextThrottle]_vars

----------------------------------------------------------------------------
(* The pages of the steps that lead to the home page.  A page answers with a
   redirect (the path) or renders its step ("page"). *)

\* what getCurrentSession() returns: no cookie, no session
CurrentSession(c) ==
    IF cookies[c].session = 0
    THEN [session |-> NullSession, user |-> NullUser, sessions |-> sessions]
    ELSE ValidateSessionToken(sessions, users, cookies[c].session, now)

\* a page: globalGETRateLimit, then the answer worked out from the session
ServePage(c, kind, v, answer, ck) ==
    LET r == NewReq(c, kind)
        g == GlobalGETRateLimit(lim.globalBucket, r.ip, now)
        lm1 == [lim EXCEPT !.globalBucket = g.store]
    IN
    IF ~g.ok
    THEN Commit(c, Finish(r, "Too many requests"), users, sessions, resetSessions, lm1, cookies)
    ELSE Commit(c, Finish([r EXCEPT !.session = v.session, !.user = v.user], answer),
                users, v.sessions, resetSessions, lm1, ck)

\* the test the login and signup pages make on a logged-in client
ForwardFrom(v) ==
    IF ~v.user.emailVerified THEN "/verify-email"
    ELSE IF ~v.user.registered2FA THEN "/2fa/setup"
    ELSE IF ~v.session.twoFactorVerified THEN "/2fa"
    ELSE "/"

LoginPage(c) ==
    LET v == CurrentSession(c) IN
    /\ CanStart(c)
    /\ ServePage(c, "loginPage", v, IF v.session.present THEN ForwardFrom(v) ELSE "page", cookies)

SignUpPage(c) ==
    LET v == CurrentSession(c) IN
    /\ CanStart(c)
    /\ ServePage(c, "signUpPage", v, IF v.session.present THEN ForwardFrom(v) ELSE "page", cookies)

VerifyEmailPage(c) ==
    LET v == CurrentSession(c)
        q == GetUserEmailVerificationRequestFromRequest(c, v.user.id)
    IN
    /\ CanStart(c)
    /\ IF ~v.session.present
       THEN ServePage(c, "verifyEmailPage", v, "/login", cookies)
       ELSE ServePage(c, "verifyEmailPage", v,
                      IF ~q.request.present /\ v.user.emailVerified THEN "/" ELSE "page",
                      q.cookies)

\* a challenge page that also renders for a verified session
TwoFactorPageForAnySession(c) ==
    LET v == CurrentSession(c) IN
    /\ CanStart(c)
    /\ ServePage(c, "twoFactorPage", v,
                 IF ~v.session.present THEN "/login"
                 ELSE IF ~v.user.emailVerified THEN "/verify-email"
                 ELSE IF ~v.user.registered2FA THEN "/2fa/setup"
                 ELSE "page",
                 cookies)

TwoFactorPage(c) ==
    LET v == CurrentSession(c) IN
    /\ CanStart(c)
    /\ ServePage(c, "twoFactorPage", v,
                 IF ~v.session.present THEN "/login"
                 ELSE IF ~v.user.emailVerified THEN "/verify-email"
                 ELSE IF ~v.user.registered2FA THEN "/2fa/setup"
                 ELSE IF v.session.twoFactorVerified THEN "/"
                 ELSE "page",
                 cookies)

TwoFactorSetUpPage(c) ==
    LET v == CurrentSession(c) IN
    /\ CanStart(c)
    /\ ServePage(c, "twoFactorSetUpPage", v,
                 IF ~v.session.present THEN "/login"
                 ELSE IF ~v.user.emailVerified THEN "/verify-email"
                 ELSE IF v.user.registered2FA /\ ~v.session.twoFactorVerified THEN "/2fa"
                 ELSE "page",
                 cookies)

TwoFactorResetPage(c) ==
    LET v == CurrentSession(c) IN
    /\ CanStart(c)
    /\ ServePage(c, "twoFactorResetPage", v,
                 IF ~v.session.present THEN "/login"
                 ELSE IF ~v.user.emailVerified THEN "/verify-email"
                 ELSE IF ~v.user.registered2FA THEN "/2fa/setup"
                 ELSE IF v.session.twoFactorVerified THEN "/"
                 ELSE "page",
                 cookies)

(* The specification of the step pages.  Client c1 holds a verified session
   of user 1 and client c2 a pending one; user 1 has changed its email in
   the settings and c1 carries the cookie of the verification request
   ("change"), or not ("settled"). *)

MaxStepReqs == 3        \* requests per behaviour

StepScenarios == {"settled", "change"}

InitSteps ==
    /\ now = 0
    /\ cfg = [class |-> "none", max |-> 0, expiresInSeconds |-> 0,
              refillIntervalSeconds |-> 0]
    /\ eStore = EmptyMap
    /\ rStore = EmptyMap
    /\ eWin = EmptyMap
    /\ last = [op |-> "none", key |-> "k1", cost |-> 0, ok |-> TRUE, at |-> 0]
    /\ ops = 0
    /\ users = InitUsers
    /\ sessions = [x \in {SessionIdOf(InitToken(c)) : c \in Clients}
                   |-> IF x = SessionIdOf(InitToken("c1")) THEN InitSessionRow("verified", 0)
                       ELSE InitSessionRow("pending", 0)]
    /\ resetSessions = EmptyMap
    /\ \E sc \in StepScenarios :
        /\ emailRequests =
             IF sc = "settled" THEN EmptyMap
             ELSE InitEmailRequestId :>
                    [userId |-> 1, code |-> InitEmailRequestId, email |-> "n@x",
                     expiresAt |-> EmailRequestLifetime]
        /\ sent = IF sc = "settled" THEN {}
                  ELSE {[to |-> "n@x", code |-> InitEmailRequestId]}
        /\ cookies = [c \in Clients |->
                        [session |-> InitToken(c), reset |-> 0,
                         email |-> IF c = "c1" /\ sc = "change"
                                   THEN InitEmailRequestId ELSE 0]]
    /\ lim = [n \in LimiterNames |-> EmptyMap]
    /\ reqs = [c \in Clients |-> NoReq]
    /\ nextId = 0
    /\ wrongCodes = <<>>
    /\ budget = MaxStepReqs

NextSteps ==
    \/ \E c \in Clients : LoginPage(c)
    \/ \E c \in Clients : SignUpPage(c)
    \/ \E c \in Clients : VerifyEmailPage(c)
    \/ \E c \in Clients : TwoFactorSetUpPage(c)
    \/ \E c \in Clients : TwoFactorPage(c)
    \/ \E c \in Clients : TwoFactorResetPage(c)
    \/ \E c \in Clients, code \in TOTPInputs : Verify2FAStart(c, code)
    \/ \E c \in Clients : Verify2FASet(c)
    \/ \E c \in Clients : LogoutStart(c)
    \/ \E c \in Clients : LogoutInvalidate(c)

SpecSteps == InitSteps /\ [][NextSteps]_vars

----------------------------------------------------------------------------
(* The refilling bucket on one key, called with costs that do not exceed
   max, over a longer run.  history: eWin[key] is the list of the granted
   consumes of the key, each with its instant and its cost. *)

MaxRateNow == 4
MaxRateOps == 4

InitRate == InitBucket /\ cfg.class = "refilling"

RateTick ==
    /\ now < MaxRateNow
    /\ now' = now + 1
    /\ UNCHANGED bucketVars
    /\ UNCHANGED authVars

RateCheck(key, cost) ==
    /\ ops < MaxRateOps
    /\ cost <= cfg.max
    /\ ops' = ops + 1
    /\ last' = [op |-> "rCheck", key |-> key, cost |-> cost, at |-> now,
                ok |-> RefillingCheck(rStore, cfg.max, cfg.refillIntervalSeconds, key, cost, now),
                after |-> [op |-> last.op, key |-> last.key, cost |-> last.cost,
                           ok |-> last.ok, at |-> last.at]]
    /\ UNCHANGED <<now, cfg, eStore, rStore, eWin>>
    /\ UNCHANGED authVars

RateConsume(key, cost) ==
    LET r == RefillingConsume(rStore, cfg.max, cfg.refillIntervalSeconds, key, cost, now)
        log == IF MapHas(eWin, key) THEN eWin[key] ELSE <<>>
    IN
    /\ ops < MaxRateOps
    /\ cost <= cfg.max
    /\ ops' = ops + 1
    /\ rStore' = r.store
    /\ eWin' = IF r.ok THEN MapSet(eWin, key, Append(log, [at |-> now, cost |-> cost]))
               ELSE eWin
    /\ last' = [op |-> "rConsume", key |-> key, cost |-> cost, at |-> now, ok |-> r.ok,
                after |-> [op |-> last.op, key |-> last.key, cost |-> last.cost,
                           ok |-> last.ok, at |-> last.at]]
    /\ UNCHANGED <<now, cfg, eStore>>
    /\ UNCHANGED authVars

NextRate ==
    \/ RateTick
    \/ \E cost \in 1..MaxCost : RateCheck(OneKey, cost)
    \/ \E cost \in 1..MaxCost : RateConsume(OneKey, cost)

SpecRate == InitRate /\ [][NextRate]_vars

----------------------------------------------------------------------------
(* The specification of what a recovery leaves trusted: reset2FAAction next
   to the two actions that issue a session with a flag taken from elsewhere,
   resetPasswordAction and updatePasswordAction.  Client c1 holds a pending
   session of user 1 and the cookie of a password-reset session of user 1
   that has passed both checkpoints; client c2 holds a verified or a pending
   session of user 1. *)

MaxTrustReqs == 2       \* requests per behaviour

InitTrust ==
    /\ now = 0
    /\ cfg = [class |-> "none", max |-> 0, expiresInSeconds |-> 0,
              refillIntervalSeconds |-> 0]
    /\ eStore = EmptyMap
    /\ rStore = EmptyMap
    /\ eWin = EmptyMap
    /\ last = [op |-> "none", key |-> "k1", cost |-> 0, ok |-> TRUE, at |-> 0]
    /\ ops = 0
    /\ users = InitUsers
    /\ \E state \in {"verified", "pending"} :
          sessions = [x \in {SessionIdOf(InitToken(c)) : c \in Clients}
                      |-> IF x = SessionIdOf(InitToken("c1")) THEN InitSessionRow("pending", 0)
                          ELSE InitSessionRow(state, 0)]
    /\ resetSessions = SessionIdOf(InitResetToken) :>
                          [userId |-> 1, expiresAt |-> PasswordResetSessionLifetime,
                           emailVerified |-> TRUE, twoFactorVerified |-> TRUE]
    /\ cookies = [c \in Clients |->
                    [session |-> InitToken(c),
                     reset |-> IF c = "c1" THEN InitResetToken ELSE 0,
                     email |-> 0]]
    /\ lim = [n \in LimiterNames |-> EmptyMap]
    /\ reqs = [c \in Clients |-> NoReq]
    /\ nextId = 0
    /\ emailRequests = EmptyMap
    /\ sent = {}
    /\ wrongCodes = <<>>
    /\ budget = MaxTrustReqs

NextTrust ==
    \/ \E c \in Clients, code \in RecoveryInputs : Reset2FAStart(c, code)
    \/ \E c \in Clients : Reset2FAClear(c)
    \/ \E c \in Clients : Reset2FARotate(c)
    \/ \E c \in Clients, newPassword \in ResetPasswordInputs :
            ResetPasswordStart(c, newPassword)
    \/ \E c \in Clients : ResetPasswordInvalidateResets(c)
    \/ \E c \in Clients : ResetPasswordInvalidate(c)
    \/ \E c \in Clients : ResetPasswordWrite(c)
    \/ \E c \in Clients : ResetPasswordCreateSession(c)
    \/ \E c \in Clients, i \in UpdatePasswordInputs : UpdatePasswordStart(c, i[1], i[2])
    \/ \E c \in Clients : UpdatePasswordReadHash(c)
    \/ \E c \in Clients : UpdatePasswordInvalidate(c)
    \/ \E c \in Clients : UpdatePasswordWrite(c)

SpecTrust == InitTrust /\ [][NextTrust]_vars

----------------------------------------------------------------------------
(* The specification of two users after one address.  Client c1 is a device
   of user 2 and client c2 a device of user 1, with the 2FA step done; user 2
   has asked to change its email to "n@x", which nobody holds, and in the
   second scenario user 1 has asked for the same address too. *)

MaxUniqueReqs == 3      \* requests per behaviour

SecondEmailRequestId == 32

InitUnique ==
    /\ now = 0
    /\ cfg = [class |-> "none", max |-> 0, expiresInSeconds |-> 0,
              refillIntervalSeconds |-> 0]
    /\ eStore = EmptyMap
    /\ rStore = EmptyMap
    /\ eWin = EmptyMap
    /\ last = [op |-> "none", key |-> "k1", cost |-> 0, ok |-> TRUE, at |-> 0]
    /\ ops = 0
    /\ users = InitUsers
    /\ sessions = [x \in {SessionIdOf(InitToken(c)) : c \in Clients}
                   |-> IF x = SessionIdOf(InitToken("c1")) THEN InitSessionRow("user2", 0)
                       ELSE InitSessionRow("verified", 0)]
    /\ \E both \in BOOLEAN :
        LET ids == IF both THEN {InitEmailRequestId, SecondEmailRequestId}
                   ELSE {InitEmailRequestId}
        IN
        /\ emailRequests =
             [id \in ids |-> [userId |-> IF id = InitEmailRequestId THEN 2 ELSE 1,
                              code |-> id, email |-> "n@x",
                              expiresAt |-> EmailRequestLifetime]]
        /\ sent = {[to |-> "n@x", code |-> id] : id \in ids}
        /\ cookies = [c \in Clients |->
                        [session |-> InitToken(c), reset |-> 0,
                         email |-> IF c = "c1" THEN InitEmailRequestId
                                   ELSE IF both THEN SecondEmailRequestId ELSE 0]]
    /\ resetSessions = EmptyMap
    /\ lim = [n \in LimiterNames |-> EmptyMap]
    /\ reqs = [c \in Clients |-> NoReq]
    /\ nextId = 0
    /\ wrongCodes = <<>>
    /\ budget = MaxUniqueReqs

NextUnique ==
    \/ \E c \in Clients, code \in CodeInputs : VerifyEmailStart(c, code)
    \/ \E c \in Clients : VerifyEmailDelete(c)
    \/ \E c \in Clients : VerifyEmailInvalidateResets(c)
    \/ \E c \in Clients : VerifyEmailUpdateUser(c)
    \/ \E c \in Clients, email \in NewEmails : UpdateEmailStart(c, email)
    \/ \E c \in Clients : CreateRequestDelete(c)
    \/ \E c \in Clients : CreateRequestInsert(c)

SpecUnique == InitUnique /\ [][NextUnique]_vars

----------------------------------------------------------------------------
(* C1: for every key of an ExpiringTokenBucket, with no reset in between, the
   cost granted inside any one window of expiresInSeconds seconds is at most
   max, in the first window and in every later one.  Stated for callers that
   never ask for more than max at once. *)
ExpiringWindowLimit ==
    \A k \in DOMAIN eWin :
        eWin[k].largest <= cfg.max => eWin[k].spent <= cfg.max

(* C2: after any sequence of check, consume and reset calls the stored count
   of every key of either bucket class satisfies 0 <= count <= max. *)
CountWithinBounds ==
    /\ \A k \in DOMAIN eStore : 0 <= eStore[k].count /\ eStore[k].count <= cfg.max
    /\ \A k \in DOMAIN rStore : 0 <= rStore[k].count /\ rStore[k].count <= cfg.max

----------------------------------------------------------------------------
(* Recovery attempts: the requests of reset2FAAction that called
   resetUser2FAWithRecoveryCode and returned *)

RecoveryReturned(c) ==
    /\ reqs[c].kind = "reset2FA"
    /\ reqs[c].pc = "done"
    /\ reqs[c].ret \in {"redirect", "Invalid recovery code"}

\* the submitted code was the stored one when the attempt read it
RecoveryCodeWasValid(c) == reqs[c].code = DecryptToString(reqs[c].enc)

RecoveryReturnedTrue(c) == RecoveryReturned(c) /\ reqs[c].ret = "redirect"

\* two attempts for one user that read the same stored code and both
\* submitted it
SameCodeRace(p, q) ==
    /\ p # q
    /\ RecoveryReturned(p) /\ RecoveryReturned(q)
    /\ reqs[p].user.id = reqs[q].user.id
    /\ reqs[p].enc = reqs[q].enc
    /\ RecoveryCodeWasValid(p) /\ RecoveryCodeWasValid(q)

(* C3: when two recovery attempts for one user have read the same stored
   recovery code and both submitted it, exactly one of them returns true and
   the other returns false, whatever the order of their reads and writes. *)
ExactlyOneRecoveryWins ==
    \A p, q \in Clients :
        SameCodeRace(p, q) => (RecoveryReturnedTrue(p) <=> ~RecoveryReturnedTrue(q))

\* both attempts of such a race have returned
RaceOfTwoRecoveries == SameCodeRace("c1", "c2")

(* C4: a recovery attempt that returned false has changed neither the TOTP
   key, nor the recovery code, nor the twoFactorVerified flag of any
   session. *)
FailedRecoveryHasNoEffect ==
    \A c \in Clients :
        RecoveryReturned(c) /\ ~RecoveryReturnedTrue(c)
            => reqs[c].touched \cap {"totpKey", "recoveryCode", "twoFactorVerified"} = {}

\* the step in which an attempt returns true
RecoveryReturnsTrue(c) ==
    /\ reqs[c].kind = "reset2FA"
    /\ reqs[c].pc = "rotateRecoveryCode"
    /\ reqs'[c].pc = "done"
    /\ reqs'[c].ret = "redirect"

(* C5: when a recovery attempt returns true, the user's TOTP key is cleared,
   the stored recovery code is no longer the submitted one, and every session
   of the user has twoFactorVerified = false. *)
RecoveryClearsEverySession ==
    [][\A c \in Clients :
          RecoveryReturnsTrue(c) =>
              LET userId == reqs[c].user.id IN
              /\ users'[userId].totpKey = NoTOTPKey
              /\ DecryptToString(users'[userId].recoveryCode) # reqs[c].code
              /\ \A x \in DOMAIN sessions' :
                    sessions'[x].userId = userId => ~sessions'[x].twoFactorVerified]_vars

\* a session that exists before and after a step loses its flag in it
FlagCleared(x) ==
    /\ x \in DOMAIN sessions /\ x \in DOMAIN sessions'
    /\ sessions[x].twoFactorVerified
    /\ ~sessions'[x].twoFactorVerified

(* C6, as stated: a session whose twoFactorVerified is true keeps it true for
   as long as the session exists. *)
FlagNeverCleared ==
    [][\A x \in DOMAIN sessions : ~FlagCleared(x)]_vars

(* C6, amended: a session whose twoFactorVerified is true keeps it true for
   as long as the session exists, except that a recovery attempt for the
   session's user, in the statement that clears the flag of all the sessions
   of that user, sets it back to false. *)
FlagClearedOnlyByRecovery ==
    [][\A x \in DOMAIN sessions :
          FlagCleared(x) =>
              \E c \in Clients :
                  /\ reqs[c].kind = "reset2FA"
                  /\ reqs[c].pc = "clearTwoFactorVerified"
                  /\ reqs'[c].pc = "rotateRecoveryCode"
                  /\ reqs[c].user.id = sessions[x].userId]_vars

\* a recovery attempt has set a verified session back to pending, and the
\* session is still there
RecoveryClearedAFlag ==
    \E c \in Clients :
        /\ reqs[c].kind = "reset2FA"
        /\ "twoFactorVerified" \in reqs[c].touched
        /\ \E x \in DOMAIN sessions :
              sessions[x].userId = reqs[c].user.id /\ ~sessions[x].twoFactorVerified

\* the step in which a password change or a password reset issues its session
IssuesSession(c, kinds) ==
    /\ reqs[c].kind \in kinds
    /\ reqs[c].pc = "createSession"
    /\ reqs'[c].pc = "done"

UserSessions(ss, userId) == {x \in DOMAIN ss : ss[x].userId = userId}

(* C7: when updatePasswordAction or resetPasswordAction completes, no session
   of the user that existed before is left: the sessions of the user are the
   one session the operation issued. *)
OnlyIssuedSessionIsValid ==
    [][\A c \in Clients :
          IssuesSession(c, {"updatePassword", "resetPassword"}) =>
              UserSessions(sessions', reqs[c].user.id) = {SessionIdOf(reqs'[c].issued)}]_vars

(* C8: when updatePasswordAction completes, the stored hash is the hash of the
   new password the request wrote, and the issued session is the user's only
   session, whatever other requests for the user ran in between. *)
PasswordChangeClosesRace ==
    [][\A c \in Clients :
          IssuesSession(c, {"updatePassword"}) =>
              /\ users'[reqs[c].user.id].passwordHash
                    = HashPassword(reqs[c].newPassword, Fresh(reqs[c].rid))
              /\ UserSessions(sessions', reqs[c].user.id)
                    = {SessionIdOf(reqs'[c].issued)}]_vars

\* the submitted current password is the one the hash read by
\* getUserPasswordHash was made of
CurrentPasswordMatches(c) == reqs[c].password = reqs[c].hash.password

IncorrectPassword(c) ==
    /\ reqs[c].kind = "updatePassword"
    /\ reqs[c].pc = "done"
    /\ reqs[c].ret = "Incorrect password"

(* C9, as stated: updatePasswordAction writes the password only after the
   current password verified; when it returns "Incorrect password" the one
   thing it has changed is the password-update bucket. *)
IncorrectPasswordOnlyChargesBucket ==
    \A c \in Clients :
        /\ reqs[c].kind = "updatePassword" /\ "passwordHash" \in reqs[c].touched
              => CurrentPasswordMatches(c)
        /\ IncorrectPassword(c) => reqs[c].touched = {"passwordUpdateBucket"}

(* C9, amended: updatePasswordAction writes the password only after the
   current password verified against the hash it read; when it returns "Incorrect password" it has left every password
   hash, the set of sessions and every twoFactorVerified flag unchanged, and
   what it has changed is at most the password-update bucket of the
   requesting session, the global bucket of the client's address and the
   expiry of the requesting session, which the validation of its token
   extends. *)
IncorrectPasswordChangesNoCredential ==
    \A c \in Clients :
        /\ reqs[c].kind = "updatePassword" /\ "passwordHash" \in reqs[c].touched
              => CurrentPasswordMatches(c)
        /\ IncorrectPassword(c) =>
              /\ ~CurrentPasswordMatches(c)
              /\ reqs[c].touched \subseteq {"passwordUpdateBucket", "globalBucket", "expiresAt"}

\* an incorrect current password was turned down after the request had also
\* spent tokens of the global bucket
IncorrectPasswordTurnedDown ==
    \E c \in Clients : IncorrectPassword(c) /\ "globalBucket" \in reqs[c].touched

(* C10: the session issued by updatePasswordAction carries the
   twoFactorVerified flag of the session the request was made with, and the
   session issued by resetPasswordAction carries the twoFactorVerified flag of
   the password-reset session the request was made with. *)
IssuedSessionCarriesFlag ==
    [][\A c \in Clients :
          /\ IssuesSession(c, {"updatePassword"}) =>
                /\ MapHas(sessions', SessionIdOf(reqs'[c].issued))
                /\ sessions'[SessionIdOf(reqs'[c].issued)].twoFactorVerified
                      = reqs[c].session.twoFactorVerified
          /\ IssuesSession(c, {"resetPassword"}) =>
                /\ MapHas(sessions', SessionIdOf(reqs'[c].issued))
                /\ sessions'[SessionIdOf(reqs'[c].issued)].twoFactorVerified
                      = reqs[c].rsession.twoFactorVerified]_vars

\* a password change has issued a session without the flag, or a password
\* reset one with it
SessionIssuedWithCarriedFlag ==
    \E c \in Clients :
        /\ reqs[c].pc = "done" /\ reqs[c].issued # 0
        /\ MapHas(sessions, SessionIdOf(reqs[c].issued))
        /\ \/ /\ reqs[c].kind = "updatePassword"
              /\ ~reqs[c].session.twoFactorVerified
              /\ ~sessions[SessionIdOf(reqs[c].issued)].twoFactorVerified
           \/ /\ reqs[c].kind = "resetPassword"
              /\ reqs[c].rsession.twoFactorVerified
              /\ sessions[SessionIdOf(reqs[c].issued)].twoFactorVerified

----------------------------------------------------------------------------
\* the step in which resetPasswordAction passes its checks
ResetPasswordAdmitted(c) ==
    /\ ~Running(c)
    /\ reqs'[c].kind = "resetPassword"
    /\ reqs'[c].pc = "verifyPasswordStrength"

\* the stored password-reset session of the presented token allows the reset
ResetSessionAllows(c) ==
    LET sid == SessionIdOf(cookies[c].reset) IN
    /\ cookies[c].reset # 0
    /\ MapHas(resetSessions, sid)
    /\ now < resetSessions[sid].expiresAt
    /\ resetSessions[sid].emailVerified
    /\ users[resetSessions[sid].userId].totpKey # NoTOTPKey
          => resetSessions[sid].twoFactorVerified

(* C11: resetPasswordAction passes its checks only when the presented token is
   that of a stored, unexpired password-reset session with emailVerified true
   and, for a user with a TOTP key, twoFactorVerified true; a request that did
   not pass them, or that stopped at the strength of the password, has
   changed no password and no login session. *)
ResetPasswordIsGated ==
    [][\A c \in Clients :
          /\ ResetPasswordAdmitted(c) => ResetSessionAllows(c)
          /\ reqs'[c].kind = "resetPassword"
                /\ reqs'[c].touched
                      \cap {"passwordHash", "sessionSet", "twoFactorVerified", "expiresAt"} # {}
                => reqs'[c].pc \in {"hashPassword", "createSession", "done"}
                   /\ reqs'[c].rsession.present
                   /\ reqs'[c].rsession.emailVerified
                   /\ (reqs'[c].user.registered2FA => reqs'[c].rsession.twoFactorVerified)
          /\ reqs'[c].kind = "resetPassword" /\ reqs'[c].pc = "done"
                /\ reqs'[c].ret # "redirect"
                => reqs'[c].touched
                      \cap {"passwordHash", "sessionSet", "twoFactorVerified", "expiresAt"} = {}]_vars

\* a reset for a user without a TOTP key has written the password on the
\* email checkpoint alone
ResetDoneWithoutSecondFactor ==
    \E c \in Clients :
        /\ reqs[c].kind = "resetPassword" /\ reqs[c].ret = "redirect"
        /\ "passwordHash" \in reqs[c].touched
        /\ ~reqs[c].user.registered2FA
        /\ ~reqs[c].rsession.twoFactorVerified

(* C12: of the requests that present the token of one password-reset session,
   at most one writes a password. *)
ResetSessionIsSingleUse ==
    \A p, q \in Clients :
        /\ p # q
        /\ reqs[p].kind = "resetPassword" /\ reqs[q].kind = "resetPassword"
        /\ reqs[p].rsession.present /\ reqs[p].rsession.id = reqs[q].rsession.id
        => ~("passwordHash" \in reqs[p].touched /\ "passwordHash" \in reqs[q].touched)

----------------------------------------------------------------------------
\* the wrong TOTP codes of a user turned down in the TotpBucketExpires seconds
\* up to now
RecentWrongCodes(userId) ==
    {i \in DOMAIN wrongCodes :
        wrongCodes[i].userId = userId /\ wrongCodes[i].at > now - TotpBucketExpires}

\* the step in which client c submits a TOTP code with a pending session of a
\* user that has 2FA registered
SubmitsTOTP(c) ==
    /\ ~Running(c)
    /\ reqs'[c].kind = "verify2FA"
    /\ reqs'[c].rid = nextId + 1
    /\ MapHas(sessions, SessionIdOf(cookies[c].session))
    /\ ~sessions[SessionIdOf(cookies[c].session)].twoFactorVerified

(* C13: when TotpBucketMax wrong codes of a user have been turned down within
   the last 30 minutes, the next submission for that user is answered "Too
   many requests", whatever its code, and verifies no session. *)
SixthCodeIsRejected ==
    [][\A c \in Clients :
          /\ SubmitsTOTP(c)
          /\ Cardinality(RecentWrongCodes(sessions[SessionIdOf(cookies[c].session)].userId))
                >= TotpBucketMax
          => reqs'[c].ret = "Too many requests" /\ reqs'[c].pc = "done"]_vars

----------------------------------------------------------------------------
(* Email verification (SpecEmail) *)

\* client c submits a code to verifyEmailAction in this step
SubmitsEmailCode(c) ==
    /\ reqs'[c].kind = "verifyEmail"
    /\ reqs'[c].rid = nextId + 1
    /\ nextId' = nextId + 1

\* the reissue of client c ends in this step
ReissueEnds(c) ==
    /\ reqs[c].kind = "verifyEmail"
    /\ reqs[c].pc = "insertEmailVerificationRequest"
    /\ reqs'[c].pc = "done"

(* C14: a submission to verifyEmailAction that finds the request of its cookie
   expired, and is not turned down before it looks, goes on to reissue; when
   the reissue ends the expired request is gone, the user has a new request
   with the same user and email, a code never sent before, an expiry
   EmailRequestLifetime seconds from now, the code has been sent to that
   email, the answer is the "expired, new code sent" message, and the
   submission has changed neither email nor emailVerified of any user. *)
ExpiredRequestIsReissued ==
    [][\A c \in Clients :
          /\ ( /\ SubmitsEmailCode(c)
               /\ MapHas(emailRequests, cookies[c].email)
               /\ now >= emailRequests[cookies[c].email].expiresAt
               /\ reqs'[c].ret \notin {"Too many requests", "Not authenticated", "Forbidden"}
               => /\ reqs'[c].pc = "deleteUserEmailVerificationRequest"
                  /\ reqs'[c].vreq.id = cookies[c].email
                  /\ users' = users )
          /\ ( ReissueEnds(c)
               => LET old == reqs[c].vreq
                      id == reqs'[c].issued
                  IN /\ ~MapHas(emailRequests', old.id)
                     /\ ~MapHas(emailRequests, id)
                     /\ MapHas(emailRequests', id)
                     /\ emailRequests'[id].userId = old.userId
                     /\ emailRequests'[id].email = old.email
                     /\ emailRequests'[id].code \notin {s.code : s \in sent}
                     /\ emailRequests'[id].expiresAt = now + EmailRequestLifetime
                     /\ [to |-> old.email, code |-> emailRequests'[id].code] \in sent'
                     /\ reqs'[c].ret = ExpiredCodeMessage
                     /\ users' = users
                     /\ reqs'[c].touched \cap {"email", "emailVerified"} = {} )
      ]_vars

\* a reissue has ended and the request it made is stored
ExpiredRequestWasReissued ==
    \E c \in Clients :
        /\ reqs[c].kind = "verifyEmail"
        /\ reqs[c].ret = ExpiredCodeMessage
        /\ MapHas(emailRequests, reqs[c].issued)
        /\ emailRequests[reqs[c].issued].expiresAt > now

(* C15: when the last request of a client was a submission to
   verifyEmailAction that ended in a reissue, and the client next submits the
   code that reissue sent while the reissued request is stored and not
   expired, the submission is accepted as correct (unless the attempt limiter
   turns it down): the client needs no resend in between. *)
ReissuedCodeCompletesVerification ==
    [][\A c \in Clients :
          /\ reqs[c].kind = "verifyEmail"
          /\ reqs[c].ret = ExpiredCodeMessage
          /\ SubmitsEmailCode(c)
          /\ MapHas(emailRequests, reqs[c].issued)
          /\ now < emailRequests[reqs[c].issued].expiresAt
          /\ reqs'[c].code = emailRequests[reqs[c].issued].code
          => \/ reqs'[c].pc = "deleteVerifiedRequest"
             \/ reqs'[c].ret = "Too many requests"
      ]_vars

\* the email verification requests stored for a user
RequestsOf(u) == {id \in DOMAIN emailRequests : emailRequests[id].userId = u}

(* C16: in every reachable state each user has at most one email verification
   request, whichever of email update, resend and reissue created it and in
   whatever order the requests arrive. *)
AtMostOneRequestPerUser ==
    \A u \in DOMAIN users : Cardinality(RequestsOf(u)) <= 1

\* the step of client c is the UPDATE of the success path of verifyEmailAction
VerifyEmailSucceeds(c) ==
    /\ reqs[c].kind = "verifyEmail"
    /\ reqs[c].pc = "updateUserEmailAndSetEmailAsVerified"
    /\ reqs'[c].ret = "redirect"

(* C17: a step changes email or emailVerified of a user only when it is the
   UPDATE of a succeeding verifyEmailAction of that user, which sets the email
   to that of the verified request and emailVerified to true, both in the one
   step; updateEmailAction, resend and a failed or expired submission change
   neither. *)
EmailChangesOnlyOnVerification ==
    [][\A u \in DOMAIN users :
          users'[u].email # users[u].email \/ users'[u].emailVerified # users[u].emailVerified
          => \E c \in Clients :
                /\ VerifyEmailSucceeds(c)
                /\ reqs[c].user.id = u
                /\ reqs[c].vreq.userId = u
                /\ users'[u].email = reqs[c].vreq.email
                /\ users'[u].emailVerified
      ]_vars

\* a verifyEmailAction has moved user 2 to a new address and marked it verified
EmailVerifiedAfterUpdate ==
    /\ users[2].email = "n@x"
    /\ users[2].emailVerified
    /\ \E c \in Clients : reqs[c].kind = "verifyEmail" /\ reqs[c].ret = "redirect"
                          /\ "email" \in reqs[c].touched

----------------------------------------------------------------------------
(* Session expiry (SpecSession) *)

\* client c validates the token of its cookie in this step
ValidatesSession(c) ==
    /\ reqs'[c].kind = "getCurrentSession"
    /\ reqs'[c].rid = nextId + 1
    /\ nextId' = nextId + 1

CookieSessionId(c) == SessionIdOf(cookies[c].session)

(* C18: a validation of a stored session that has not expired sets its
   expiresAt to now + SessionLifetime when now >= expiresAt - RenewalWindow and
   leaves it unchanged when more than RenewalWindow remains; the stored row and
   the session returned carry that value, and expiresAt never moves earlier. *)
RenewalInLastFifteenDays ==
    [][\A c \in Clients :
          /\ ValidatesSession(c)
          /\ MapHas(sessions, CookieSessionId(c))
          /\ now < sessions[CookieSessionId(c)].expiresAt
          => LET old == sessions[CookieSessionId(c)].expiresAt IN
             /\ MapHas(sessions', CookieSessionId(c))
             /\ sessions'[CookieSessionId(c)].expiresAt
                  = IF now >= old - RenewalWindow THEN now + SessionLifetime ELSE old
             /\ sessions'[CookieSessionId(c)].expiresAt >= old
             /\ reqs'[c].session.present
             /\ reqs'[c].session.expiresAt = sessions'[CookieSessionId(c)].expiresAt
      ]_vars

\* one client's validation has renewed its session while the other's left its
\* session as it was
RenewedAndLeftAlone ==
    \E c, d \in Clients :
        /\ reqs[c].kind = "getCurrentSession" /\ reqs[c].session.present
        /\ "expiresAt" \in reqs[c].touched
        /\ reqs[d].kind = "getCurrentSession" /\ reqs[d].session.present
        /\ reqs[d].touched = {}
        /\ reqs[d].at > 0

(* C19: a validation of a stored session with now >= expiresAt deletes the row
   and returns no session; no validation returns a session whose expiresAt,
   returned or stored, is not in the future; and once a validation of a token
   has returned nothing, the next validation of that token returns nothing. *)
ExpiredSessionIsDeleted ==
    [][\A c \in Clients :
          ValidatesSession(c)
          => /\ ( MapHas(sessions, CookieSessionId(c))
                  /\ now >= sessions[CookieSessionId(c)].expiresAt
                  => /\ ~MapHas(sessions', CookieSessionId(c))
                     /\ ~reqs'[c].session.present )
             /\ ( reqs'[c].session.present
                  => /\ reqs'[c].session.expiresAt > now
                     /\ MapHas(sessions', CookieSessionId(c))
                     /\ sessions'[CookieSessionId(c)].expiresAt > now )
             /\ ( reqs[c].kind = "getCurrentSession" /\ ~reqs[c].session.present
                  => ~reqs'[c].session.present /\ sessions' = sessions )
      ]_vars

\* a session was deleted on expiry and a later validation of its token found
\* nothing
ExpiredTokenValidatedAgain ==
    \E c \in Clients :
        /\ reqs[c].kind = "getCurrentSession"
        /\ ~reqs[c].session.present
        /\ reqs[c].touched = {}
        /\ ~MapHas(sessions, CookieSessionId(c))

\* the time of the last validation of the session of client c, or of its creation
LastSeen(c) == IF reqs[c].kind = "getCurrentSession" THEN reqs[c].at ELSE 0
\* the session of client c has not been turned down so far
StillAccepted(c) == reqs[c].kind = "getCurrentSession" => reqs[c].session.present

(* C20: a session validated no later than RenewalWindow seconds after its
   creation or its previous validation is accepted, however old it is; a
   session validated SessionLifetime seconds or more after its creation or its
   previous validation is turned down and its row is deleted. *)
SlidingExpiry ==
    [][\A c \in Clients :
          ValidatesSession(c)
          => /\ ( StillAccepted(c) /\ now - LastSeen(c) <= RenewalWindow
                  => reqs'[c].session.present /\ MapHas(sessions', CookieSessionId(c)) )
             /\ ( now - LastSeen(c) >= SessionLifetime
                  => ~reqs'[c].session.present /\ ~MapHas(sessions', CookieSessionId(c)) )
      ]_vars

\* one session is accepted after its first expiry date has passed, another was
\* turned down and deleted after SessionLifetime seconds without validation
OutlivedFirstExpiryAndIdleRejected ==
    \E c, d \in Clients :
        /\ reqs[c].kind = "getCurrentSession" /\ reqs[c].session.present
        /\ reqs[c].at >= SessionLifetime + RenewalWindow
        /\ reqs[d].kind = "getCurrentSession" /\ ~reqs[d].session.present
        /\ "sessionSet" \in reqs[d].touched

----------------------------------------------------------------------------
(* Logging in (SpecLogin) and the home page (SpecPage) *)

\* the step of client c ends its loginAction with a new session
LoginCreatesSession(c) ==
    /\ reqs[c].kind = "login"
    /\ reqs[c].pc = "verifyPasswordHash"
    /\ reqs'[c].ret = "redirect"
    /\ DOMAIN sessions' = DOMAIN sessions \cup {SessionIdOf(reqs'[c].issued)}
    /\ SessionIdOf(reqs'[c].issued) \notin DOMAIN sessions

(* C21: a step of loginAction adds a session only at the end of a request
   whose submitted password is the one the stored hash of the user was made
   of and whose throttler consume was granted (it recorded the attempt), and
   the session added belongs to that user and has twoFactorVerified false; a
   loginAction answered "Too many requests" has created no session and set no
   cookie, whatever its password; and a throttler entry is removed only by a
   loginAction of that user that ends with a session. *)
LoginCreatesSessionOnlyOnPassword ==
    [][/\ ( DOMAIN sessions' \ DOMAIN sessions # {}
            => \E c \in Clients :
                  /\ LoginCreatesSession(c)
                  /\ users[reqs[c].user.id].passwordHash.password = reqs[c].password
                  /\ users[reqs[c].user.id].email = reqs[c].email
                  /\ "throttler" \in reqs[c].touched
                  /\ sessions'[SessionIdOf(reqs'[c].issued)].userId = reqs[c].user.id
                  /\ ~sessions'[SessionIdOf(reqs'[c].issued)].twoFactorVerified )
       /\ \A c \in Clients :
             reqs'[c].kind = "login" /\ reqs'[c].ret = "Too many requests"
             => /\ "sessionSet" \notin reqs'[c].touched
                /\ reqs'[c].issued = 0
                /\ cookies'[c] = cookies[c]
       /\ \A u \in DOMAIN users :
             MapHas(lim.throttler, u) /\ ~MapHas(lim'.throttler, u)
             => \E c \in Clients : LoginCreatesSession(c) /\ reqs[c].user.id = u
      ]_vars

\* a login with the correct password was turned down by the throttler, and
\* another login ended with a session and an empty throttler entry
ThrottledAndGranted ==
    \E c, d \in Clients :
        /\ reqs[c].kind = "login" /\ reqs[c].ret = "Too many requests"
        /\ reqs[c].email = "a@x" /\ reqs[c].password = "p0"
        /\ reqs[d].kind = "login" /\ reqs[d].ret = "redirect"
        /\ MapHas(sessions, SessionIdOf(reqs[d].issued))
        /\ ~MapHas(lim.throttler, reqs[d].user.id)

\* client c loads the home page in this step
LoadsHomePage(c) ==
    /\ reqs'[c].kind = "homePage"
    /\ reqs'[c].rid = nextId + 1
    /\ nextId' = nextId + 1

\* what the home page owes client c, from the stored rows
FirstUnmetStep(c) ==
    LET sid == SessionIdOf(cookies[c].session) IN
    IF cookies[c].session = 0 \/ ~MapHas(sessions, sid) \/ now >= sessions[sid].expiresAt
    THEN "/login"
    ELSE IF ~users[sessions[sid].userId].emailVerified THEN "/verify-email"
    ELSE IF users[sessions[sid].userId].totpKey = NoTOTPKey THEN "/2fa/setup"
    ELSE IF ~sessions[sid].twoFactorVerified THEN "/2fa"
    ELSE "content"

(* C22: the home page, unless the global limiter turns the request down,
   renders its content exactly when the cookie's session exists and has not
   expired, the email of its user is verified, the user has a TOTP key and the
   session is 2FA-verified, and otherwise redirects to the first unmet step in
   the order login, verify-email, 2FA setup, 2FA challenge; a client whose
   last request was a loginAction that ended with a session for an
   email-verified user without a TOTP key is redirected to 2FA setup and its
   session is not 2FA-verified. *)
HomePageRedirectsToFirstUnmetStep ==
    [][\A c \in Clients :
          LoadsHomePage(c) /\ reqs'[c].ret # "Too many requests"
          => /\ reqs'[c].ret = FirstUnmetStep(c)
             /\ ( /\ reqs[c].kind = "login" /\ reqs[c].ret = "redirect"
                  /\ users[reqs[c].user.id].emailVerified
                  /\ users[reqs[c].user.id].totpKey = NoTOTPKey
                  => /\ reqs'[c].ret = "/2fa/setup"
                     /\ ~reqs'[c].session.twoFactorVerified
                     /\ reqs'[c].session.userId = reqs[c].user.id )
      ]_vars

\* a client that logged in and answered the challenge was shown the content
ContentShown ==
    \E c \in Clients :
        /\ reqs[c].kind = "homePage" /\ reqs[c].ret = "content"
        /\ reqs[c].session.twoFactorVerified
        /\ reqs[c].user.registered2FA /\ reqs[c].user.emailVerified

----------------------------------------------------------------------------
(* 2FA setup (SpecSetup) *)

SetupWritesKey(c) == reqs[c].kind = "setup2FA" /\ reqs[c].pc = "updateUserTOTPKey"
                     /\ reqs'[c].pc = "setSessionAs2FAVerified"
SetupSetsFlag(c) == reqs[c].kind = "setup2FA" /\ reqs[c].pc = "setSessionAs2FAVerified"
                    /\ reqs'[c].pc = "done"

(* C23: a setup2FAAction whose code is the TOTP of its well-formed key stores
   that key as the TOTP key of the session's user and then sets
   twoFactorVerified on its own session, in the same request, and every other
   session row stays as it was; no other step changes a TOTP key or a
   session flag, and a setup2FAAction that ends with a message has changed
   neither. *)
SetupInstallsKeyAndVerifiesSession ==
    [][/\ \A c \in Clients :
            /\ ( reqs'[c].kind = "setup2FA" /\ reqs'[c].pc = "updateUserTOTPKey"
                 /\ reqs[c].pc \in {"idle", "done"}
                 => reqs'[c].totp = reqs'[c].key /\ reqs'[c].key \notin MalformedKeys )
            /\ ( SetupWritesKey(c)
                 => /\ users'[reqs[c].session.userId].totpKey = reqs[c].key
                    /\ sessions' = sessions )
            /\ ( SetupSetsFlag(c)
                 => /\ reqs'[c].ret = "redirect"
                    /\ sessions'[reqs[c].session.id].twoFactorVerified
                    /\ \A x \in DOMAIN sessions : x # reqs[c].session.id
                                                  => sessions'[x] = sessions[x]
                    /\ DOMAIN sessions' = DOMAIN sessions
                    /\ users' = users )
            /\ ( reqs'[c].kind = "setup2FA" /\ reqs'[c].pc = "done"
                 /\ reqs'[c].ret # "redirect"
                 => reqs'[c].touched \cap {"totpKey", "twoFactorVerified"} = {} )
       /\ ( \E u \in DOMAIN users : users'[u].totpKey # users[u].totpKey )
          => \E c \in Clients : SetupWritesKey(c)
       /\ ( \E x \in DOMAIN sessions \cap DOMAIN sessions' :
                sessions'[x].twoFactorVerified # sessions[x].twoFactorVerified )
          => \E c \in Clients : SetupSetsFlag(c)
      ]_vars

\* a setup ended: the user has the submitted key, the session is verified and
\* the other session of the user is not
SetupDone ==
    \E c \in Clients :
        /\ reqs[c].kind = "setup2FA" /\ reqs[c].ret = "redirect"
        /\ users[reqs[c].session.userId].totpKey = reqs[c].key
        /\ sessions[reqs[c].session.id].twoFactorVerified
        /\ reqs[c].session.userId = 2
        /\ ~sessions[SessionIdOf(2)].twoFactorVerified

----------------------------------------------------------------------------
(* 2FA recovery (SpecRecovery) *)

\* client c calls reset2FAAction in this step
StartsReset2FA(c) ==
    /\ reqs'[c].kind = "reset2FA"
    /\ reqs'[c].rid = nextId + 1
    /\ nextId' = nextId + 1

\* the stored session of the cookie of client c and its user do not admit
\* recovery: the session is 2FA-verified, or the email is not verified, or
\* there is no TOTP key
RecoveryClosed(c) ==
    LET sid == SessionIdOf(cookies[c].session) IN
    /\ MapHas(sessions, sid)
    /\ now < sessions[sid].expiresAt
    /\ \/ sessions[sid].twoFactorVerified
       \/ ~users[sessions[sid].userId].emailVerified
       \/ users[sessions[sid].userId].totpKey = NoTOTPKey

(* C24: reset2FAAction called with a session that is 2FA-verified, or whose
   user has an unverified email or no TOTP key, answers "Forbidden" in that
   step, leaves every limiter and every user row as it was and changes no
   session flag; and the steps of reset2FAAction that clear flags and rotate
   the code belong to requests whose session was not 2FA-verified when the
   request validated it. *)
RecoveryOnlyFromUnverifiedSession ==
    [][\A c \in Clients :
          /\ ( StartsReset2FA(c) /\ RecoveryClosed(c)
               => /\ reqs'[c].ret = "Forbidden" /\ reqs'[c].pc = "done"
                  /\ lim' = lim
                  /\ users' = users
                  /\ DOMAIN sessions' = DOMAIN sessions
                  /\ \A x \in DOMAIN sessions :
                        sessions'[x].twoFactorVerified = sessions[x].twoFactorVerified
                  /\ reqs'[c].touched \cap {"recoveryCodeBucket", "totpKey", "recoveryCode",
                                            "twoFactorVerified"} = {} )
          /\ ( reqs[c].kind = "reset2FA" /\ Running(c)
               => /\ ~reqs[c].session.twoFactorVerified
                  /\ reqs[c].user.emailVerified
                  /\ reqs[c].user.registered2FA )
      ]_vars

\* a verified session was refused recovery, and so was a user without a TOTP key
\* or with an unverified email
RecoveryRefused ==
    \E c \in Clients :
        /\ reqs[c].kind = "reset2FA" /\ reqs[c].ret = "Forbidden"
        /\ reqs[c].touched = {}
        /\ MapHas(sessions, SessionIdOf(cookies[c].session))
        /\ sessions[SessionIdOf(cookies[c].session)].twoFactorVerified

----------------------------------------------------------------------------
(* The global request gate (SpecGate) *)

\* client c calls a server action in this step
StartsAction(c) ==
    /\ reqs'[c].rid = nextId + 1
    /\ nextId' = nextId + 1

\* the global gate has no POSTCost tokens left for client c
GateClosed(c) ==
    /\ ClientIP(c) # NoIP
    /\ ~RefillingCheck(lim.globalBucket, GlobalBucketMax, GlobalBucketRefill,
                       ClientIP(c), POSTCost, now)

(* C25: every server action of a client with a network identity charges the
   global gate in its first step when the gate has POSTCost tokens for the
   client, and an action called while the gate has none answers "Too many requests" in that
   step, with the session, user and request tables and every other limiter
   left as they were. *)
GlobalGateComesFirst ==
    [][\A c \in Clients :
          StartsAction(c) /\ ClientIP(c) # NoIP
          => /\ ( ~GateClosed(c) => lim'.globalBucket # lim.globalBucket )
             /\ ( GateClosed(c)
                  => /\ reqs'[c].ret = "Too many requests" /\ reqs'[c].pc = "done"
                     /\ users' = users /\ sessions' = sessions
                     /\ emailRequests' = emailRequests /\ cookies' = cookies
                     /\ \A n \in LimiterNames \ {"globalBucket"} : lim'[n] = lim[n] )
      ]_vars

----------------------------------------------------------------------------
\* the tokens an expiring bucket holds for a key at instant t
TokensLeft(s, max, expiresInSeconds, key, t) ==
    IF ~MapHas(s, key) THEN max
    ELSE IF Expired(s[key], expiresInSeconds, t) THEN max
    ELSE s[key].count

PasswordTokens(s, c) ==
    TokensLeft(s, PasswordUpdateBucketMax, PasswordUpdateBucketExpires,
               reqs[c].session.id, now)

TotpTokens(s, u) == TokensLeft(s, TotpBucketMax, TotpBucketExpires, u, now)

\* the request of c leaves the await that follows passwordUpdateBucket.check
LeavesStrengthCheck(c) ==
    /\ reqs[c].kind = "updatePassword" /\ reqs[c].pc = "verifyPasswordStrength"
    /\ reqs'[c] # reqs[c]
    /\ VerifyPasswordStrength(reqs[c].newPassword)

\* a new verify2FAAction of c has its code compared
ComparesTOTP(c) ==
    /\ reqs'[c].rid # reqs[c].rid /\ reqs'[c].kind = "verify2FA"
    /\ reqs'[c].ret = "Invalid code" \/ reqs'[c].pc = "setSessionAs2FAVerified"

\* the request of c has had its password compared or is about to
PasswordCompared(c) ==
    /\ reqs[c].kind = "updatePassword"
    /\ reqs[c].pc = "verifyPasswordHash" \/ reqs[c].ret = "Incorrect password"

(* C26: the guarded comparison of updatePasswordAction and of verify2FAAction
   runs only after the consume of its limiter took a token in the same
   request; an updatePasswordAction that passed check and finds the tokens
   taken by a concurrent request returns "Too many requests" and changes no
   store, so that every comparison is paid with one token of the bucket. *)
ComparisonOnlyOnGrantedToken ==
    [][\A c \in Clients :
          /\ LeavesStrengthCheck(c)
             => IF PasswordTokens(lim.passwordUpdateBucket, c) >= 1
                THEN /\ reqs'[c].pc = "verifyPasswordHash"
                     /\ PasswordTokens(lim'.passwordUpdateBucket, c)
                          = PasswordTokens(lim.passwordUpdateBucket, c) - 1
                ELSE /\ reqs'[c].pc = "done" /\ reqs'[c].ret = "Too many requests"
                     /\ reqs'[c].touched = reqs[c].touched
                     /\ users' = users /\ sessions' = sessions /\ cookies' = cookies
                     /\ lim' = lim
          /\ ComparesTOTP(c)
             => /\ TotpTokens(lim.totpBucket, reqs'[c].user.id) >= 1
                /\ "totpBucket" \in reqs'[c].touched
      ]_vars

\* one tab was refused by consume after it passed check, the other tab's
\* password was compared
RefusedAfterCheck ==
    \E c \in Clients, d \in Clients :
        /\ c # d
        /\ reqs[c].kind = "updatePassword" /\ reqs[c].ret = "Too many requests"
        /\ reqs[c].session.present
        /\ PasswordCompared(d)
        /\ reqs[d].session.id = reqs[c].session.id

----------------------------------------------------------------------------
IPKeyedLimiters == {"globalBucket", "ipBucket", "passwordResetEmailIPBucket"}

\* client c starts a request
StartsRequest(c) == reqs'[c].rid # reqs[c].rid

\* the user-keyed limiter of the request c starts has nothing for user u
UserLimiterClosed(c, u) ==
    \/ /\ reqs'[c].kind = "login"
       /\ ~ThrottlerConsume(lim.throttler, LoginTimeouts, u, now).ok
    \/ /\ reqs'[c].kind = "forgotPassword"
       /\ ~RefillingCheck(lim.passwordResetEmailUserBucket, PasswordResetEmailUserBucketMax,
                          PasswordResetEmailUserBucketRefill, u, 1, now)

UserLimiterOf(c) ==
    IF reqs'[c].kind = "login" THEN "throttler" ELSE "passwordResetEmailUserBucket"

(* C27: a request that carries no X-Forwarded-For changes no IP-keyed bucket
   and no IP-keyed bucket holds an entry for the absent address; such a
   request is answered "Too many requests" only by the user-keyed limiter of
   its action, and a login or password-reset request for an existing user
   that is not refused charges that limiter. *)
NoAddressNoIPLimit ==
    [][\A c \in Clients :
          ClientIP(c) = NoIP /\ reqs'[c] # reqs[c]
          => /\ \A n \in IPKeyedLimiters : lim'[n] = lim[n] /\ ~MapHas(lim'[n], NoIP)
             /\ StartsRequest(c) /\ reqs'[c].kind \in {"login", "forgotPassword"}
                => LET user == GetUserFromEmail(users, reqs'[c].email) IN
                   IF user = NullUser THEN reqs'[c].ret = "Account does not exist"
                   ELSE IF UserLimiterClosed(c, user.id)
                   THEN reqs'[c].ret = "Too many requests"
                   ELSE /\ reqs'[c].ret # "Too many requests"
                        /\ UserLimiterOf(c) \in reqs'[c].touched
             /\ StartsRequest(c) /\ reqs'[c].kind = "homePage"
                => reqs'[c].ret # "Too many requests"
      ]_vars

\* the client without address was let through by the gates and refused by
\* the throttler of the user it logs in as
RefusedByUserLimiterOnly ==
    /\ reqs["c2"].kind = "login" /\ reqs["c2"].ret = "Too many requests"
    /\ MapHas(lim.throttler, 1)
    /\ \A n \in IPKeyedLimiters : ~MapHas(lim[n], NoIP)

----------------------------------------------------------------------------
\* the last call was a check made right after a rejected consume of the same
\* key and cost, at the same clock value
CheckedRightAfterRejection ==
    /\ last.op = "rCheck"
    /\ last.after.op = "rConsume" /\ ~last.after.ok
    /\ last.after.key = last.key /\ last.after.cost = last.cost
    /\ last.after.at = last.at

(* C28: a check of a RefillingTokenBucket made right after a consume of the
   same key and cost returned false, at the same clock value, returns false
   too. *)
RejectedConsumeThenCheckFails ==
    CheckedRightAfterRejection => ~last.ok

\* such a check was made after the rejected consume had credited a refill
CheckedAfterRejectionWithRefill ==
    /\ CheckedRightAfterRejection
    /\ ~last.ok
    /\ rStore[last.key].count > 0
    /\ rStore[last.key].refilledAt = last.at /\ last.at > 0

----------------------------------------------------------------------------
\* the tokens of a key as consume computes them at instant t, before it
\* compares them with the cost
TokensAvailable(key, t) ==
    IF ~MapHas(rStore, key) THEN cfg.max
    ELSE Min(rStore[key].count + Refill(rStore[key], cfg.refillIntervalSeconds, t), cfg.max)

\* a key was last written by the consume that set refilledAt: it has been left
\* untouched since
Waited(key) == now - rStore[key].refilledAt

(* C29: for a key of a RefillingTokenBucket left untouched for interval * k
   seconds, the tokens that check and consume see after the wait exceed those
   the last consume left by at most min(max, k); a part of an interval credits
   nothing, and the total never exceeds max. *)
RefillWithinBound ==
    \A key \in DOMAIN rStore :
        LET k == Waited(key) \div cfg.refillIntervalSeconds
            before == rStore[key].count
            after == TokensAvailable(key, now)
        IN /\ after <= cfg.max
           /\ after - before <= k
           /\ \A cost \in 1..MaxCost :
                 RefillingCheck(rStore, cfg.max, cfg.refillIntervalSeconds, key, cost, now)
                 <=> after >= cost
           /\ Waited(key) = cfg.refillIntervalSeconds * k
              => after - before <= Min(cfg.max, k)

----------------------------------------------------------------------------
\* the entry of the key was created by a consume on the absent key, the
\* consumes granted since total max, and the window of the entry is running
SpentInFirstWindow(key) ==
    /\ MapHas(eStore, key) /\ MapHas(eWin, key)
    /\ eWin[key].index = 0 /\ eWin[key].start = eStore[key].createdAt
    /\ eWin[key].spent = cfg.max
    /\ now - eStore[key].createdAt < cfg.expiresInSeconds

\* the step is a consume of one token of the key
ConsumesOneMore(key) ==
    /\ ops' = ops + 1
    /\ last'.op = "eConsume" /\ last'.key = key /\ last'.cost = 1

(* C30: for an ExpiringTokenBucket key that was absent, once consumes
   totalling max have succeeded, a consume of one more token before
   expiresInSeconds have passed since the entry was created returns false and
   leaves the entry as it was. *)
SpentWindowRejectsOneMore ==
    [][\A key \in Keys :
          SpentInFirstWindow(key) /\ ConsumesOneMore(key)
          => ~last'.ok /\ eStore' = eStore
      ]_vars

\* one more token was asked for and refused in the window the key spent its
\* tokens in
OneMoreRejected ==
    /\ last.op = "eConsume" /\ last.cost = 1 /\ ~last.ok
    /\ MapHas(eStore, last.key) /\ MapHas(eWin, last.key)
    /\ eWin[last.key].index = 0 /\ eWin[last.key].spent = cfg.max
    /\ eStore[last.key].count = 0
    /\ last.at - eStore[last.key].createdAt < cfg.expiresInSeconds

----------------------------------------------------------------------------
\* expiresInSeconds have elapsed since the window of the entry began
WindowElapsed(key) ==
    /\ MapHas(eStore, key)
    /\ now - eStore[key].createdAt >= cfg.expiresInSeconds

\* the step is a consume of the key that asks for no more than max
ConsumesWithinMax(key) ==
    /\ ops' = ops + 1
    /\ last'.op = "eConsume" /\ last'.key = key /\ last'.cost <= cfg.max

(* C31: once expiresInSeconds have elapsed since the window of an
   ExpiringTokenBucket entry began, whatever count the entry holds, every
   consume of at most max tokens succeeds and is charged to a full bucket; so
   consumes totalling max all succeed. *)
ElapsedWindowGrantsMax ==
    [][\A key \in Keys :
          WindowElapsed(key) /\ ConsumesWithinMax(key)
          => /\ last'.ok
             /\ eStore'[key].count = cfg.max - last'.cost
      ]_vars

\* a key that had spent its tokens was granted max tokens in a later window
ExhaustedThenGrantedMax ==
    /\ last.op = "eConsume" /\ last.ok /\ last.cost = cfg.max
    /\ MapHas(eStore, last.key) /\ MapHas(eWin, last.key)
    /\ eStore[last.key].createdAt < last.at
    /\ eWin[last.key].index > 0

----------------------------------------------------------------------------
\* the step is a consume of a key the throttler holds
RetriesConsume(key) ==
    /\ last' # last /\ last'.op = "tConsume" /\ last'.key = key
    /\ MapHas(lim.throttler, key)

\* seconds since the previous allowed consume of the key
SinceAllowed(key) == now - lim.throttler[key].updatedAt

\* timeoutSeconds[i], i counted from 0 as in the source
TimeoutAt(i) == cfg.timeoutSeconds[Min(i, Len(cfg.timeoutSeconds) - 1) + 1]

(* C32: for a Throttler key with no reset, the N-th allowed consume after the
   one that created the entry (N = 1, 2, ...) is allowed only when at least
   timeoutSeconds[min(N - 1, len - 1)] seconds have elapsed since the previous
   allowed consume; an attempt made earlier is rejected and does not count. *)
RetryWaitsForItsLevel ==
    [][\A key \in Keys :
          RetriesConsume(key)
          => LET n == last.nth + 1 IN
             /\ last'.ok => SinceAllowed(key) >= TimeoutAt(n - 1) /\ last'.nth = n
             /\ SinceAllowed(key) < TimeoutAt(n - 1) => ~last'.ok /\ last'.nth = last.nth
      ]_vars

(* C32 as the specification states it: the N-th retried attempt waits at
   least timeoutSeconds[min(N, len - 1)] seconds. *)
RetryWaitsForNextLevel ==
    [][\A key \in Keys :
          RetriesConsume(key)
          => LET n == last.nth + 1 IN
             /\ last'.ok => SinceAllowed(key) >= TimeoutAt(n)
             /\ SinceAllowed(key) < TimeoutAt(n) => ~last'.ok
      ]_vars

\* the third retry of the login throttler was allowed 4 seconds after the
\* second, an attempt before that having been rejected
ThirdRetryAllowed ==
    /\ cfg.timeoutSeconds = LoginTimeouts
    /\ last.op = "tConsume" /\ last.ok /\ last.nth = 3
    /\ last.after.op = "tConsume" /\ last.after.at < last.at
    /\ lim.throttler[last.key].timeout = 3

----------------------------------------------------------------------------
\* the last call was a consume and the call before it a reset
ConsumedAfterReset ==
    /\ last.op = "tConsume"
    /\ last.after.op = "tReset"

(* C33: for a Throttler, whatever level and timestamp the key had, a consume
   that follows a reset of the key returns true and leaves the key at level 0
   with the instant of the consume. *)
ResetThenConsumeSucceeds ==
    ConsumedAfterReset
    => /\ last.ok
       /\ MapHas(lim.throttler, last.key)
       /\ lim.throttler[last.key] = [timeout |-> 0, updatedAt |-> last.at]

\* a key that had been raised above level 0 was reset and consumed in the
\* same second
RaisedKeyResetAndConsumed ==
    /\ ConsumedAfterReset
    /\ last.ok
    /\ last.after.level > 0
    /\ last.after.at = last.at

----------------------------------------------------------------------------
StepPages == {"loginPage", "signUpPage", "verifyEmailPage", "twoFactorSetUpPage",
              "twoFactorPage", "twoFactorResetPage"}

\* client c loads a step page
LoadsStepPage(c) == reqs'[c].rid # reqs[c].rid /\ reqs'[c].kind \in StepPages

\* the session of c exists and is 2FA-verified, its user has a verified
\* email and a TOTP key
FullyVerified(c) ==
    LET sid == SessionIdOf(cookies[c].session) IN
    /\ cookies[c].session # 0 /\ MapHas(sessions, sid)
    /\ now < sessions[sid].expiresAt
    /\ sessions[sid].twoFactorVerified
    /\ users[sessions[sid].userId].emailVerified
    /\ users[sessions[sid].userId].totpKey # NoTOTPKey

\* an email verification request of the user is attached to the request
CarriesEmailRequest(c) ==
    LET sid == SessionIdOf(cookies[c].session) IN
    /\ cookies[c].email # 0 /\ MapHas(emailRequests, cookies[c].email)
    /\ emailRequests[cookies[c].email].userId = sessions[sid].userId

(* C34: for a fully-verified session the login, signup, 2FA challenge and 2FA
   recovery pages redirect to the home page; the verify-email page does so
   unless a verification request of the user is attached to the request, in
   which case it renders; the 2FA setup page renders, so that the key can be
   replaced. *)
VerifiedSessionIsSentForward ==
    [][\A c \in Clients :
          LoadsStepPage(c) /\ FullyVerified(c)
          => reqs'[c].ret =
               IF reqs'[c].kind = "twoFactorSetUpPage" THEN "page"
               ELSE IF reqs'[c].kind = "verifyEmailPage" /\ CarriesEmailRequest(c) THEN "page"
               ELSE "/"
      ]_vars

(* C34 as the specification states it: every step page redirects a
   fully-verified session to the home page. *)
EveryStepPageRedirectsHome ==
    [][\A c \in Clients :
          LoadsStepPage(c) /\ FullyVerified(c) => reqs'[c].ret = "/"
      ]_vars

\* a client that passed the challenge in this behaviour was sent home by the
\* recovery page
VerifiedSentHomeFromRecovery ==
    /\ reqs["c2"].kind = "twoFactorResetPage" /\ reqs["c2"].ret = "/"
    /\ reqs["c2"].session.twoFactorVerified

----------------------------------------------------------------------------
\* the step is a consume of the key
ConsumesThrottler(key) == last' # last /\ last'.op = "tConsume" /\ last'.key = key

LastLevel == Len(cfg.timeoutSeconds) - 1

(* C35: Throttler.consume on a present key returns true exactly when
   now - updatedAt >= timeoutSeconds[level]; when it returns true it sets
   updatedAt to now and level to min(level + 1, len - 1), when it returns
   false it leaves the entry unchanged; on an absent key it creates the entry
   at level 0 and returns true.  Between resets the level never decreases,
   and it always lies within 0..len-1. *)
ConsumeFollowsLevel ==
    [][\A key \in Keys :
          /\ ConsumesThrottler(key) /\ MapHas(lim.throttler, key)
             => LET e == lim.throttler[key] IN
                /\ last'.ok <=> now - e.updatedAt >= cfg.timeoutSeconds[e.timeout + 1]
                /\ last'.ok => lim'.throttler[key] =
                                  [timeout |-> IF e.timeout + 1 < LastLevel THEN e.timeout + 1
                                               ELSE LastLevel,
                                   updatedAt |-> now]
                /\ ~last'.ok => lim'.throttler = lim.throttler
          /\ ConsumesThrottler(key) /\ ~MapHas(lim.throttler, key)
             => /\ last'.ok
                /\ lim'.throttler[key] = [timeout |-> 0, updatedAt |-> now]
          /\ MapHas(lim.throttler, key) /\ MapHas(lim'.throttler, key)
             => lim'.throttler[key].timeout >= lim.throttler[key].timeout
          /\ MapHas(lim'.throttler, key)
             => lim'.throttler[key].timeout \in 0..LastLevel
      ]_vars

\* a key that was allowed at the last level and stayed there had a consume
\* rejected
RejectedAtLastLevel ==
    /\ last.op = "tConsume" /\ ~last.ok
    /\ LastLevel = 1
    /\ last.level = LastLevel /\ last.nth >= 2
    /\ lim.throttler[last.key].timeout = LastLevel

----------------------------------------------------------------------------
\* the step is a consume of a key the refilling bucket holds
ConsumesHeldKey(key) ==
    /\ ops' = ops + 1
    /\ last'.op = "rConsume" /\ last'.key = key
    /\ MapHas(rStore, key)

(* C36: RefillingTokenBucket.consume on an existing key sets refilledAt to
   now on every call, granted or rejected; a call made less than
   refillIntervalSeconds after the previous one credits nothing, so a key
   consumed at such gaps never gains a token and an exhausted key that keeps
   retrying at such gaps is rejected every time. *)
ShortGapsCreditNothing ==
    [][\A key \in Keys :
          ConsumesHeldKey(key)
          => /\ rStore'[key].refilledAt = now
             /\ now - rStore[key].refilledAt < cfg.refillIntervalSeconds
                => /\ last'.ok <=> rStore[key].count >= last'.cost
                   /\ rStore'[key].count = IF last'.ok THEN rStore[key].count - last'.cost
                                           ELSE rStore[key].count
      ]_vars

\* an exhausted key was rejected twice in a row, the second time less than an
\* interval after the first and an interval or more after the bucket was made
RejectedAgainAfterShortGap ==
    /\ last.op = "rConsume" /\ ~last.ok /\ last.cost = 1
    /\ last.after.op = "rConsume" /\ ~last.after.ok
    /\ last.after.key = last.key /\ last.after.cost = 1
    /\ last.after.at < last.at
    /\ last.at - last.after.at < cfg.refillIntervalSeconds
    /\ last.at >= cfg.refillIntervalSeconds
    /\ rStore[last.key] = [count |-> 0, refilledAt |-> last.at]

----------------------------------------------------------------------------
\* the cost of the granted consumes number i to j of a list of grants
RECURSIVE GrantedCost(_, _, _)
GrantedCost(log, i, j) ==
    IF i > j THEN 0 ELSE log[i].cost + GrantedCost(log, i + 1, j)

(* C37: for every key and every sequence of consume calls of the refilling
   bucket whose costs do not exceed max, the cost of the consumes granted
   within any stretch of T seconds is at most
   max + floor(T / refillIntervalSeconds).  A stretch that holds the most
   cost for its length starts and ends at a grant, so the bound is stated
   for every pair of grants. *)
GrantedCostWithinRate ==
    \A key \in DOMAIN eWin :
        \A i \in 1..Len(eWin[key]) : \A j \in i..Len(eWin[key]) :
            GrantedCost(eWin[key], i, j)
                <= cfg.max + (eWin[key][j].at - eWin[key][i].at) \div cfg.refillIntervalSeconds

\* the grants of a key reach the bound exactly over a stretch that was
\* refilled, and the call after them was rejected
RateBoundReached ==
    /\ MapHas(eWin, OneKey)
    /\ \E i \in 1..Len(eWin[OneKey]) : \E j \in i..Len(eWin[OneKey]) :
          /\ eWin[OneKey][j].at - eWin[OneKey][i].at >= cfg.refillIntervalSeconds
          /\ GrantedCost(eWin[OneKey], i, j)
                = cfg.max + (eWin[OneKey][j].at - eWin[OneKey][i].at)
                                \div cfg.refillIntervalSeconds
    /\ last.op = "rConsume" /\ ~last.ok /\ last.key = OneKey

----------------------------------------------------------------------------
(* C38: in every reachable state, a login session with twoFactorVerified =
   true belongs to a user who has a TOTP key registered; so after a
   successful recovery no session of the user is or becomes 2FA-verified
   until a 2FA setup succeeds again, the sessions issued by
   resetPasswordAction and updatePasswordAction included. *)
VerifiedSessionHasTOTPKey ==
    \A x \in DOMAIN sessions :
        sessions[x].twoFactorVerified => users[sessions[x].userId].totpKey # NoTOTPKey

----------------------------------------------------------------------------
\* a verifyEmailAction is about to run its UPDATE of the user row
AtEmailUpdateStep(c) ==
    /\ reqs[c].kind = "verifyEmail"
    /\ reqs[c].pc = "updateUserEmailAndSetEmailAsVerified"

(* C39: whenever verifyEmailAction reaches its email-update step, the address
   of the verified request is not the email of any other user, so that no
   verification ends in a store failure and no two users hold one address. *)
AddressFreeAtVerification ==
    /\ \A c \in Clients :
          AtEmailUpdateStep(c)
          => ~\E u \in DOMAIN users :
                 u # reqs[c].user.id /\ users[u].email = reqs[c].vreq.email
    /\ \A c \in Clients : ~(reqs[c].kind = "verifyEmail" /\ reqs[c].ret = "error")
    /\ \A u, w \in DOMAIN users : u # w => users[u].email # users[w].email

----------------------------------------------------------------------------
\* the step installs a TOTP key for user u
InstallsTOTPKey(u) ==
    /\ users'[u].totpKey # users[u].totpKey
    /\ users'[u].totpKey # NoTOTPKey

\* the checks of setup2FAAction, on what the request read at its start
PassedSetupGate(c) ==
    /\ reqs[c].session.present
    /\ reqs[c].user.emailVerified
    /\ reqs[c].user.registered2FA => reqs[c].session.twoFactorVerified

(* C40: a user's TOTP key is written only by a setup2FAAction whose session
   exists, whose user has a verified email and, if a TOTP key is already
   registered, whose session is 2FA-verified; so a session that has passed
   only the password step never installs or replaces the TOTP key of an
   account that has one. *)
KeyWrittenOnlyPastSecondFactor ==
    [][\A u \in DOMAIN users :
          InstallsTOTPKey(u)
          => \E c \in Clients :
                /\ SetupWritesKey(c)
                /\ reqs[c].session.userId = u
                /\ PassedSetupGate(c)
                /\ users[u].totpKey # NoTOTPKey
                   => /\ MapHas(sessions, reqs[c].session.id)
                      /\ sessions[reqs[c].session.id].twoFactorVerified
      ]_vars

====
